---- MODULE Spec2Model ----
(***************************************************************************)
(* XCircle Digital COO: the chat handlers of src/index.js.                 *)
(*                                                                         *)
(* src/index.js holds two copies of the bot engine: copy 1 is lines 1-537  *)
(* (Telegram guarded by a bot.use middleware), copy 2 is lines 539-956     *)
(* (key-checked LLM clients, Telegram guarded inside the text handler).    *)
(* The variable `variant` says which copy runs.                            *)
(*                                                                         *)
(* A text is a sequence of UTF-16 code units; an ASCII unit is written as  *)
(* itself and any other unit as "uXXXX", its code in hexadecimal.          *)
(***************************************************************************)
EXTENDS Integers, Sequences, FiniteSets, TLC

VARIABLES
    variant,    \* 1 or 2: the copy of src/index.js that runs
    env,        \* process.env, the variables the handlers depend on
    utcHour,    \* new Date().getUTCHours()
    ticks,      \* hours elapsed since the process started
    alive,      \* the Node process has not been terminated
    h,          \* handler invocations in progress: slot -> frame
    fn,         \* one application of a pure function (SpecFn only)
    proc,       \* the process: module construction, transports, exit
    store       \* the documents of the memory store workspace, oldest first
                \* (SpecStore; the handler specifications keep the calls
                \* made to the store in the frame's log)

vars == <<variant, env, utcHour, ticks, alive, h, fn, proc, store>>

(***************************************************************************)
(* Bounds of the model.                                                    *)
(***************************************************************************)
MaxParts == 2        \* a generated text is at most this many fragments
MaxInFlight == 2     \* slots of the frame table; Spec runs one invocation at a time, in slot 1
MaxTicks == 1        \* hours the clock advances in one behaviour

(***************************************************************************)
(* Program constants.                                                      *)
(***************************************************************************)
RIYADH_OFFSET == 3
HOURS_PER_DAY == 24
PEAK_START == 20
PEAK_END == 1
LONG_TEXT_LIMIT == 500

KW_INVOICE_AR == <<"u0641", "u0627", "u062A", "u0648", "u0631", "u0629">>
KW_INVOICE == <<"i", "n", "v", "o", "i", "c", "e">>
KW_MEETING_AR == <<"u0627", "u062C", "u062A", "u0645", "u0627", "u0639">>
KW_MEETING == <<"m", "e", "e", "t", "i", "n", "g">>
KW_SEARCH_AR == <<"u0627", "u0628", "u062D", "u062B">>
KW_MARKET_AR == <<"u0633", "u0648", "u0642">>
KW_TALENT_AR == <<"u0645", "u0648", "u0627", "u0647", "u0628">>
KW_RECRUIT == <<"r", "e", "c", "r", "u", "i", "t">>
KW_SAVE_AR == <<"u062D", "u0641", "u0638">>
KW_SAVE == <<"s", "a", "v", "e">>
KW_CODE == <<"c", "o", "d", "e">>
KW_PROGRAM_AR == <<"u0628", "u0631", "u0645", "u062C">>
KW_ANALYSIS_AR == <<"u062A", "u062D", "u0644", "u064A", "u0644">>

\* config.FOUNDER_WHATSAPP_NUMBER's default, '+966550746064'
FOUNDER_DEFAULT == <<"+", "9", "6", "6", "5", "5", "0", "7", "4", "6", "0", "6", "4">>

(***************************************************************************)
(* JavaScript string built-ins, as the handlers use them.                  *)
(***************************************************************************)
\* String.prototype.includes: k occurs in t as a contiguous run
Includes(t, k) ==
    \E i \in 0..(Len(t) - Len(k)) : SubSeq(t, i + 1, i + Len(k)) = k

UpperCase == <<"A", "B", "C", "D", "E", "F", "G", "H", "I", "J", "K", "L", "M",
               "N", "O", "P", "Q", "R", "S", "T", "U", "V", "W", "X", "Y", "Z">>
LowerCase == <<"a", "b", "c", "d", "e", "f", "g", "h", "i", "j", "k", "l", "m",
               "n", "o", "p", "q", "r", "s", "t", "u", "v", "w", "x", "y", "z">>

LowerUnit(c) ==
    IF \E i \in 1..Len(UpperCase) : UpperCase[i] = c
    THEN LowerCase[CHOOSE i \in 1..Len(UpperCase) : UpperCase[i] = c]
    ELSE c

\* String.prototype.toLowerCase
ToLowerCase(t) == [i \in 1..Len(t) |-> LowerUnit(t[i])]

\* the white space String.prototype.trim removes
WhiteSpace == {" ", "\t", "\n", "\r", "u00A0", "uFEFF", "u2028", "u2029"}

RECURSIVE TrimStart(_)
TrimStart(t) ==
    IF t # <<>> /\ Head(t) \in WhiteSpace THEN TrimStart(Tail(t)) ELSE t

RECURSIVE TrimEnd(_)
TrimEnd(t) ==
    IF t # <<>> /\ t[Len(t)] \in WhiteSpace
    THEN TrimEnd(SubSeq(t, 1, Len(t) - 1))
    ELSE t

\* String.prototype.trim
Trim(t) == TrimEnd(TrimStart(t))

\* a match of the pattern k at the head of t, letter case ignored (flag i)
MatchesAtHead(t, k) ==
    /\ Len(t) >= Len(k)
    /\ ToLowerCase(SubSeq(t, 1, Len(k))) = ToLowerCase(k)

\* text.replace(/KW_SAVE_AR|save/gi, ''): one left-to-right scan, each match
\* removed, the scan resuming after the match (flag g)
RECURSIVE StripSaveWords(_)
StripSaveWords(t) ==
    IF t = <<>> THEN <<>>
    ELSE IF MatchesAtHead(t, KW_SAVE_AR)
         THEN StripSaveWords(SubSeq(t, Len(KW_SAVE_AR) + 1, Len(t)))
    ELSE IF MatchesAtHead(t, KW_SAVE)
         THEN StripSaveWords(SubSeq(t, Len(KW_SAVE) + 1, Len(t)))
    ELSE <<Head(t)>> \o StripSaveWords(Tail(t))

\* the content handed to memoryModule.saveToMemory by the save branch
SaveContent(text) == Trim(StripSaveWords(text))

(***************************************************************************)
(* Engine selection.                                                       *)
(***************************************************************************)
EngineMutantLate(hour) ==
    LET riyadhHour == (hour + RIYADH_OFFSET) % HOURS_PER_DAY
        isPeakTime == (riyadhHour > PEAK_START \/ riyadhHour < PEAK_END)
    IN  [isPeakTime |-> isPeakTime,
         primary    |-> IF isPeakTime THEN "CLAUDE" ELSE "GROQ",
         agentic    |-> IF isPeakTime THEN "ZAI" ELSE "BRAVE",
         riyadhHour |-> riyadhHour,
         timeWindow |-> IF isPeakTime THEN "PEAK_HOURS" ELSE "OFF_PEAK"]

\* copy 1
getActiveEngine(hour) ==
    LET riyadhHour == (hour + RIYADH_OFFSET) % HOURS_PER_DAY
        isPeakTime == (riyadhHour >= PEAK_START \/ riyadhHour < PEAK_END)
    IN  [isPeakTime |-> isPeakTime,
         primary    |-> IF isPeakTime THEN "CLAUDE" ELSE "GROQ",
         agentic    |-> IF isPeakTime THEN "ZAI" ELSE "BRAVE",
         riyadhHour |-> riyadhHour,
         timeWindow |-> IF isPeakTime THEN "PEAK_HOURS" ELSE "OFF_PEAK"]

\* copy 2
getActiveEngine_v2(hour) ==
    LET riyadhHour == (hour + RIYADH_OFFSET) % HOURS_PER_DAY
        isPeakTime == (riyadhHour >= PEAK_START \/ riyadhHour < PEAK_END)
    IN  [isPeakTime |-> isPeakTime,
         primary    |-> IF isPeakTime THEN "CLAUDE" ELSE "GROQ",
         agentic    |-> IF isPeakTime THEN "ZAI" ELSE "BRAVE",
         riyadhHour |-> riyadhHour,
         timeWindow |-> IF isPeakTime THEN "PEAK_HOURS" ELSE "OFF_PEAK"]

(***************************************************************************)
(* Keyword routing: the if / else-if chains of the three text handlers.    *)
(***************************************************************************)
RouteMutantSaveFirst(text) ==
    IF Includes(text, KW_SAVE_AR) \/ Includes(text, KW_SAVE) THEN "save"
    ELSE IF Includes(text, KW_INVOICE_AR) \/ Includes(text, KW_INVOICE) THEN "invoice"
    ELSE IF Includes(text, KW_MEETING_AR) \/ Includes(text, KW_MEETING) THEN "meeting"
    ELSE IF Includes(text, KW_SEARCH_AR) \/ Includes(text, KW_MARKET_AR) THEN "market"
    ELSE IF Includes(text, KW_TALENT_AR) \/ Includes(text, KW_RECRUIT) THEN "recruit"
    ELSE "generic"

\* bot.on('text') of copy 1
RouteTelegram(text) ==
    IF Includes(text, KW_INVOICE_AR) \/ Includes(text, KW_INVOICE) THEN "invoice"
    ELSE IF Includes(text, KW_MEETING_AR) \/ Includes(text, KW_MEETING) THEN "meeting"
    ELSE IF Includes(text, KW_SEARCH_AR) \/ Includes(text, KW_MARKET_AR) THEN "market"
    ELSE IF Includes(text, KW_TALENT_AR) \/ Includes(text, KW_RECRUIT) THEN "recruit"
    ELSE IF Includes(text, KW_SAVE_AR) \/ Includes(text, KW_SAVE) THEN "save"
    ELSE IF Includes(ToLowerCase(text), KW_CODE) \/ Includes(text, KW_PROGRAM_AR) THEN "code"
    ELSE IF Len(text) > LONG_TEXT_LIMIT \/ Includes(text, KW_ANALYSIS_AR) THEN "analysis"
    ELSE "generic"

\* handleWhatsAppMessage of copy 1
RouteWhatsApp(text) ==
    IF Includes(text, KW_INVOICE_AR) \/ Includes(text, KW_INVOICE) THEN "invoice"
    ELSE IF Includes(text, KW_MEETING_AR) \/ Includes(text, KW_MEETING) THEN "meeting"
    ELSE IF Includes(text, KW_SEARCH_AR) \/ Includes(text, KW_MARKET_AR) THEN "market"
    ELSE IF Includes(text, KW_TALENT_AR) \/ Includes(text, KW_RECRUIT) THEN "recruit"
    ELSE IF Includes(text, KW_SAVE_AR) \/ Includes(text, KW_SAVE) THEN "save"
    ELSE "generic"

\* handleWhatsAppMessage of copy 2
RouteWhatsApp_v2(text) ==
    IF Includes(text, KW_INVOICE_AR) \/ Includes(text, KW_INVOICE) THEN "invoice"
    ELSE IF Includes(text, KW_MEETING_AR) \/ Includes(text, KW_MEETING) THEN "meeting"
    ELSE IF Includes(text, KW_SEARCH_AR) \/ Includes(text, KW_MARKET_AR) THEN "market"
    ELSE IF Includes(text, KW_TALENT_AR) \/ Includes(text, KW_RECRUIT) THEN "recruit"
    ELSE IF Includes(text, KW_SAVE_AR) \/ Includes(text, KW_SAVE) THEN "save"
    ELSE "generic"

\* bot.on('text') of copy 2
RouteTelegram_v2(text) ==
    IF Includes(text, KW_INVOICE_AR) \/ Includes(text, KW_INVOICE) THEN "invoice"
    ELSE IF Includes(text, KW_MEETING_AR) \/ Includes(text, KW_MEETING) THEN "meeting"
    ELSE "generic"

Route(v, ch, text) ==
    IF ch = "telegram"
    THEN (IF v = 1 THEN RouteTelegram(text) ELSE RouteTelegram_v2(text))
    ELSE (IF v = 1 THEN RouteWhatsApp(text) ELSE RouteWhatsApp_v2(text))

\* the first call a branch makes: every keyword branch and the generic branch
\* pick the LLM by the engine decision; 'code' always calls Claude, 'analysis'
\* Gemini, and the save branch calls memoryModule.saveToMemory
BranchCall(branch, isPeakTime) ==
    CASE branch = "save"     -> "saveToMemory"
      [] branch = "code"     -> "callClaude"
      [] branch = "analysis" -> "callGemini"
      [] OTHER               -> IF isPeakTime THEN "callClaude" ELSE "callGroq"

(***************************************************************************)
(* Generated texts: every concatenation of at most MaxParts fragments.     *)
(***************************************************************************)
COLON_DECISION_AR == <<":", " ", "u0642", "u0631", "u0627", "u0631", " ", "u0627",
                       "u0633", "u062A", "u0631", "u0627", "u062A", "u064A", "u062C", "u064A">>
DECISION_AR == SubSeq(COLON_DECISION_AR, 3, Len(COLON_DECISION_AR))

Fragments ==
    {KW_INVOICE, KW_INVOICE_AR, KW_MEETING, KW_MEETING_AR, KW_SEARCH_AR,
     KW_MARKET_AR, KW_TALENT_AR, KW_RECRUIT, KW_SAVE, KW_SAVE_AR,
     KW_CODE, KW_ANALYSIS_AR, COLON_DECISION_AR,
     <<" ">>, <<"s">>, <<"a", "v", "e">>, <<"S", "a", "v", "e">>, <<"h", "i">>,
     <<"s">> \o KW_SAVE \o <<"a", "v", "e">>}

RECURSIVE TextsUpTo(_)
TextsUpTo(n) ==
    IF n = 0 THEN {<<>>}
    ELSE LET P == TextsUpTo(n - 1) IN P \cup {p \o f : p \in P, f \in Fragments}

Hours == 0..(HOURS_PER_DAY - 1)

(***************************************************************************)
(* SpecFn: the pure functions applied to drawn inputs.                     *)
(***************************************************************************)
FnNone == [kind |-> "none", pc |-> "in", hour |-> 0, text |-> <<>>,
           engine |-> <<>>, branch |-> <<>>, calls |-> {}, content |-> <<>>,
           arg |-> <<>>, out |-> <<>>]

\* engine decision of both copies for fn.hour
ApplyEngine ==
    /\ fn.kind = "engine" /\ fn.pc = "in"
    /\ fn' = [fn EXCEPT !.pc = "out",
                        !.engine = <<getActiveEngine(fn.hour), getActiveEngine_v2(fn.hour)>>]
    /\ UNCHANGED <<variant, env, utcHour, ticks, alive, h, proc, store>>

\* the four text handlers: <<copy, channel>>
Handlers == {<<1, "telegram">>, <<1, "whatsapp">>, <<2, "telegram">>, <<2, "whatsapp">>}

\* branch chosen by each of the four text handlers for fn.text, the calls
\* that branch can make (peak and off-peak), and the content the save
\* branch extracts
ApplyRoute ==
    /\ fn.kind = "route" /\ fn.pc = "in"
    /\ fn' = [fn EXCEPT !.pc = "out",
                        !.branch = [k \in Handlers |-> Route(k[1], k[2], fn.text)],
                        !.calls = {BranchCall(Route(k[1], k[2], fn.text), p) :
                                     k \in Handlers, p \in BOOLEAN},
                        !.content = SaveContent(fn.text)]
    /\ UNCHANGED <<variant, env, utcHour, ticks, alive, h, proc, store>>

(***************************************************************************)
(* Configuration: the config object built from process.env.  An absent or  *)
(* empty variable is the empty text: both are falsy and both parse to NaN. *)
(***************************************************************************)
Digits == <<"0", "1", "2", "3", "4", "5", "6", "7", "8", "9">>

IsDigit(c) == \E i \in 1..Len(Digits) : Digits[i] = c
DigitValue(c) == (CHOOSE i \in 1..Len(Digits) : Digits[i] = c) - 1

RECURSIVE DigitsValue(_, _)
DigitsValue(t, acc) ==
    IF t = <<>> \/ ~IsDigit(Head(t)) THEN acc
    ELSE DigitsValue(Tail(t), acc * 10 + DigitValue(Head(t)))

\* a JavaScript number: NaN, or the integer n
Num(n) == [nan |-> FALSE, n |-> n]
NaN == [nan |-> TRUE, n |-> 0]

\* parseInt of an unsigned decimal text: the leading digits, NaN when none
ParseInt(t) ==
    LET s == TrimStart(t)
    IN  IF s = <<>> \/ ~IsDigit(Head(s)) THEN NaN ELSE Num(DigitsValue(s, 0))

\* a !== b on numbers: NaN differs from everything, itself included
StrictNotEqual(a, b) == a.nan \/ b.nan \/ a.n # b.n

\* truthiness of a number: NaN and 0 are falsy
TruthyNum(a) == ~a.nan /\ a.n # 0

\* copy 1: parseInt(process.env.ALLOWED_TELEGRAM_USER_IDS)
ConfigAllowedId(e) == ParseInt(e.ALLOWED_TELEGRAM_USER_IDS)

\* copy 2: parseInt(process.env.ALLOWED_TELEGRAM_USER_IDS || '0')
ConfigAllowedId_v2(e) ==
    ParseInt(IF e.ALLOWED_TELEGRAM_USER_IDS = <<>> THEN <<"0">>
             ELSE e.ALLOWED_TELEGRAM_USER_IDS)

\* config.FOUNDER_WHATSAPP_NUMBER: process.env.FOUNDER_WHATSAPP_NUMBER || default
ConfigFounderNumber(e) ==
    IF e.FOUNDER_WHATSAPP_NUMBER = <<>> THEN FOUNDER_DEFAULT
    ELSE e.FOUNDER_WHATSAPP_NUMBER

\* String.prototype.replace(c, '') with a string pattern: the first occurrence only
RECURSIVE RemoveFirst(_, _)
RemoveFirst(t, c) ==
    IF t = <<>> THEN <<>>
    ELSE IF Head(t) = c THEN Tail(t)
    ELSE <<Head(t)>> \o RemoveFirst(Tail(t), c)

(***************************************************************************)
(* Access control.                                                         *)
(***************************************************************************)
\* copy 1, bot.use: the update is rejected
TelegramRejected(e, fromId) ==
    StrictNotEqual(Num(fromId), ConfigAllowedId(e))

\* copy 2, first statement of bot.on('text'): the message is rejected
TelegramRejected_v2(e, fromId) ==
    /\ TruthyNum(ConfigAllowedId_v2(e))
    /\ StrictNotEqual(Num(fromId), ConfigAllowedId_v2(e))

\* copy 1, handleWhatsAppMessage: the message is dropped
WhatsAppIgnored(e, from) ==
    LET founderPhoneNumber == e.FOUNDER_WHATSAPP_NUMBER
    IN  founderPhoneNumber # <<>> /\ ~Includes(from, founderPhoneNumber)

\* copy 2, handleWhatsAppMessage: the message is dropped
WhatsAppIgnored_v2(e, from) ==
    LET founderPhoneNumber == ConfigFounderNumber(e)
    IN  founderPhoneNumber # <<>>
        /\ ~Includes(from, RemoveFirst(founderPhoneNumber, "+"))

(***************************************************************************)
(* Message bodies.  A body is [k, t]: k names a fixed string or the vendor *)
(* whose completion it is, t is the text interpolated into it.             *)
(***************************************************************************)
Body(k, t) == [k |-> k, t |-> t]
NoBody == Body("", <<>>)

REJECT_ACCESS == Body("reject: access is restricted to the authorized user", <<>>)
REJECT_INTERNAL == Body("reject: this bot is for internal use only", <<>>)
GREETING == Body("greeting: Digital COO ready", <<>>)
GREETING_V2 == Body("greeting: welcome to XCircle Digital COO", <<>>)
HELP == Body("help: list of commands", <<>>)
ERR_TELEGRAM == Body("error: an error occurred while processing your request, try later", <<>>)
ERR_TELEGRAM_V2 == Body("error: an error occurred while processing your request", <<>>)
ERR_WHATSAPP == Body("error: an error occurred while processing the message, try later", <<>>)
ERR_UNEXPECTED == Body("error: an unexpected error occurred, try later", <<>>)
GROQ_NOT_CONFIGURED == Body("Groq engine is not configured.", <<>>)
GROQ_FAILED == Body("error: an error occurred in the Groq engine", <<>>)

\* the localized error strings a sender can get when a flow fails
ErrorBodies == {ERR_TELEGRAM, ERR_TELEGRAM_V2, ERR_WHATSAPP, ERR_UNEXPECTED, GROQ_FAILED}

\* `saved(ID: ${docId})` confirmation of the save branch
SavedBody(docId) == Body("saved", docId)

(***************************************************************************)
(* Effects: the outbound calls of one handler invocation, in order.        *)
(***************************************************************************)
Effect(op, type, source, body, ok) ==
    [op |-> op, type |-> type, source |-> source, body |-> body, ok |-> ok]

\* axios.post of a document to the memory store
PostEffect(by, type, source, body, ok) == Effect(by, type, source, body, ok)
\* a chat-completion request to a vendor
LlmEffect(vendor, prompt, ok) == Effect(vendor, "", "", Body("prompt", prompt), ok)
\* ctx.reply / message.reply
ReplyEffect(ch, body, ok) == Effect("reply", "", ch, body, ok)

\* the result of a called function: the calls it made, whether it threw,
\* and the value it returned
Result(log, threw, value) == [log |-> log, threw |-> threw, value |-> value]

(***************************************************************************)
(* saveToSupermemory: one POST, every failure caught, null returned.       *)
(***************************************************************************)
SupermemoryMutantRethrow(body, source, messageType, ok) ==
    Result(<<PostEffect("saveToSupermemory", messageType, source, body, ok)>>,
           ~ok, IF ok THEN "id" ELSE "null")

\* copy 1
saveToSupermemory(body, source, messageType, ok) ==
    Result(<<PostEffect("saveToSupermemory", messageType, source, body, ok)>>,
           FALSE, IF ok THEN "id" ELSE "null")

\* copy 2; its guard on config.SUPERMEMORY_API_KEY never fires, the key
\* defaulting to a non-empty literal
saveToSupermemory_v2(body, source, messageType, ok) ==
    Result(<<PostEffect("saveToSupermemory", messageType, source, body, ok)>>,
           FALSE, IF ok THEN "id" ELSE "null")

Archive(v, body, source, messageType, ok) ==
    IF v = 1 THEN saveToSupermemory(body, source, messageType, ok)
    ELSE saveToSupermemory_v2(body, source, messageType, ok)

(***************************************************************************)
(* LLM functions.                                                          *)
(***************************************************************************)
\* copy 1: the error is logged and thrown again
callGroq(prompt, ok) ==
    Result(<<LlmEffect("groq", prompt, ok)>>, ~ok,
           IF ok THEN Body("groq", prompt) ELSE NoBody)

CallClaudeMutantRetry(prompt, ok) ==
    Result(<<LlmEffect("claude", prompt, ok)>>
             \o (IF ok THEN <<>> ELSE <<LlmEffect("claude", prompt, FALSE)>>),
           ~ok, IF ok THEN Body("claude", prompt) ELSE NoBody)

callClaude(prompt, ok) ==
    Result(<<LlmEffect("claude", prompt, ok)>>, ~ok,
           IF ok THEN Body("claude", prompt) ELSE NoBody)

callGemini(prompt, ok) ==
    Result(<<LlmEffect("gemini", prompt, ok)>>, ~ok,
           IF ok THEN Body("gemini", prompt) ELSE NoBody)

GroqV2MutantThrow(prompt, hasKey, ok) ==
    IF ~hasKey THEN Result(<<>>, TRUE, NoBody)
    ELSE Result(<<LlmEffect("groq", prompt, ok)>>, ~ok,
                IF ok THEN Body("groq", prompt) ELSE NoBody)

\* copy 2: no client, a fixed string; a failed call, a fixed string
callGroq_v2(prompt, hasKey, ok) ==
    IF ~hasKey THEN Result(<<>>, FALSE, GROQ_NOT_CONFIGURED)
    ELSE Result(<<LlmEffect("groq", prompt, ok)>>, FALSE,
                IF ok THEN Body("groq", prompt) ELSE GROQ_FAILED)

\* copy 2: no client or a failed call, the result of callGroq
callClaude_v2(prompt, hasKey, hasGroqKey, ok, okGroq) ==
    IF ~hasKey THEN callGroq_v2(prompt, hasGroqKey, okGroq)
    ELSE IF ok THEN Result(<<LlmEffect("claude", prompt, TRUE)>>, FALSE, Body("claude", prompt))
    ELSE LET g == callGroq_v2(prompt, hasGroqKey, okGroq)
         IN  Result(<<LlmEffect("claude", prompt, FALSE)>> \o g.log, g.threw, g.value)

(***************************************************************************)
(* MemoryModule.saveToMemory (src/modules/recruitment-module.js).          *)
(***************************************************************************)
\* content.substring(0, SUMMARY_LIMIT)
SUMMARY_LIMIT == 50

\* An LLM reply is a sequence of tokens: the brackets, "m" (a well-formed
\* member list of an object), "v" (a well-formed element list of an array
\* without brackets in it) and "w" (prose).
ReplyTokens == {"{", "}", "[", "]", "m", "v", "w"}

\* responseText.match(/<open>[\s\S]*<close>/)[0]: from the first open
\* bracket to the last close bracket, <<>> when the pattern does not match
MatchSpan(t, open, close) ==
    LET opens  == {i \in 1..Len(t) : t[i] = open}
        closes == {i \in 1..Len(t) : t[i] = close}
    IN  IF opens = {} \/ closes = {} THEN <<>>
        ELSE LET first == CHOOSE i \in opens : \A k \in opens : i <= k
                 last  == CHOOSE i \in closes : \A k \in closes : k <= i
             IN  IF first < last THEN SubSeq(t, first, last) ELSE <<>>

\* the token sequences JSON.parse accepts; it throws on every other
JsonTexts ==
    {<<"{", "}">>, <<"{", "m", "}">>, <<"[", "]">>, <<"[", "v", "]">>,
     <<"[", "{", "}", "]">>, <<"[", "{", "m", "}", "]">>}

\* the outcome of anthropic.messages.create: failed, or a reply text
LlmReply(ok, text) == [ok |-> ok, text |-> text]

\* the outcomes the handlers' save branch is run with: a JSON object, no
\* JSON object, braces that do not parse, a failed call
MetaOutcomes ==
    {LlmReply(TRUE, <<"w", "{", "m", "}">>), LlmReply(TRUE, <<"w">>),
     LlmReply(TRUE, <<"{", "w", "}">>), LlmReply(FALSE, <<>>)}

\* the metadata returned when there is no JSON object, or on any error
DEFAULT_METADATA(content) ==
    [title   |-> "Untitled Document",
     summary |-> SubSeq(content, 1, IF Len(content) < SUMMARY_LIMIT THEN Len(content)
                                    ELSE SUMMARY_LIMIT),
     tags    |-> <<"general">>,
     type    |-> "document"]

\* JSON.parse of an object text: the keys the model's reply gave, the
\* others undefined
PARSED_METADATA(span) ==
    IF span = <<"{", "m", "}">>
    THEN [title |-> "parsed title", summary |-> <<"parsed summary">>,
          tags |-> <<"parsed">>, type |-> "parsed type"]
    ELSE [title |-> "undefined", summary |-> <<"undefined">>,
          tags |-> <<"undefined">>, type |-> "undefined"]

MetadataMutantRethrow(content, outcome) ==
    LET span == MatchSpan(outcome.text, "{", "}")
    IN  Result(<<LlmEffect("metadata", content, outcome.ok)>>,
               ~outcome.ok \/ (span # <<>> /\ span \notin JsonTexts),
               IF outcome.ok /\ span \in JsonTexts THEN PARSED_METADATA(span)
               ELSE DEFAULT_METADATA(content))

\* the Claude reply's JSON object parsed, or the default when there is none;
\* a failed call and a JSON.parse error are caught, the default returned
generateDocumentMetadata(content, outcome) ==
    LET span == MatchSpan(outcome.text, "{", "}")
    IN  Result(<<LlmEffect("metadata", content, outcome.ok)>>, FALSE,
               IF outcome.ok /\ span \in JsonTexts THEN PARSED_METADATA(span)
               ELSE DEFAULT_METADATA(content))

\* the id the store gives the created document
DOC_ID == <<"d", "o", "c", "1">>

SaveToMemoryMutantSwallow(content, source, outcome, ok) ==
    LET m == generateDocumentMetadata(content, outcome)
    IN  IF m.threw THEN Result(m.log, TRUE, <<>>)
        ELSE Result(m.log \o <<PostEffect("saveToMemory", m.value.type, source,
                                          [k |-> "document", t |-> content,
                                           title |-> m.value.title,
                                           summary |-> m.value.summary,
                                           tags |-> m.value.tags], ok)>>,
                    FALSE, IF ok THEN DOC_ID ELSE <<>>)

\* metadata, then one POST of the document; any error is logged and thrown
\* again
saveToMemory(content, source, outcome, ok) ==
    LET m == generateDocumentMetadata(content, outcome)
    IN  IF m.threw THEN Result(m.log, TRUE, <<>>)
        ELSE Result(m.log \o <<PostEffect("saveToMemory", m.value.type, source,
                                          [k |-> "document", t |-> content,
                                           title |-> m.value.title,
                                           summary |-> m.value.summary,
                                           tags |-> m.value.tags], ok)>>,
                    ~ok, IF ok THEN DOC_ID ELSE <<>>)

(***************************************************************************)
(* RecruitmentModule: candidate search and ranking.                        *)
(***************************************************************************)
\* the reply's [...] span parsed; without one, the candidates as given; a
\* failed request, a criteria object without skills (criteria.skills.join)
\* and a JSON.parse error are logged and thrown again
rankCandidates(candidates, criteria, outcome) ==
    LET span == MatchSpan(outcome.text, "[", "]")
    IN  IF ~criteria.skills THEN Result(<<>>, TRUE, <<>>)
        ELSE IF ~outcome.ok THEN Result(<<LlmEffect("ranking", candidates, FALSE)>>, TRUE, <<>>)
        ELSE IF span = <<>> THEN Result(<<LlmEffect("ranking", candidates, TRUE)>>, FALSE, candidates)
        ELSE IF span \in JsonTexts THEN Result(<<LlmEffect("ranking", candidates, TRUE)>>, FALSE, span)
        ELSE Result(<<LlmEffect("ranking", candidates, TRUE)>>, TRUE, <<>>)

\* one POST to the search vendor, then the ranking; every error is logged
\* and thrown again
searchLinkedInCandidates(criteria, found, ok, outcome) ==
    LET post == Effect("zai", "", "linkedin", NoBody, ok)
        r    == rankCandidates(found, criteria, outcome)
    IN  IF ~ok THEN Result(<<post>>, TRUE, <<>>)
        ELSE Result(<<post>> \o r.log, r.threw, r.value)

(***************************************************************************)
(* MemoryModule: search and recall.  A stored document is what was         *)
(* POSTed, with the id the store gave it; a key whose value was undefined  *)
(* is not in the stored document.                                          *)
(***************************************************************************)
\* the document the store keeps for a create call
StoreDoc(e, id) == [id |-> id, by |-> e.op, type |-> e.type, source |-> e.source, body |-> e.body]

\* doc.tags is an array: saveToSupermemory always sends one, saveToMemory
\* sends the metadata's
HasTags(d) == d.by = "saveToSupermemory" \/ d.body.tags # <<"undefined">>

StoreMutantOverwrite(st, log) ==
    LET posts == SelectSeq(log, LAMBDA e : e.op \in {"saveToSupermemory", "saveToMemory"} /\ e.ok)
    IN  IF posts = <<>> \/ st = <<>> THEN st \o [i \in 1..Len(posts) |-> StoreDoc(posts[i], Len(st) + i)]
        ELSE SubSeq(st, 1, Len(st) - 1) \o [i \in 1..Len(posts) |-> StoreDoc(posts[i], Len(st) - 1 + i)]

\* the store after the calls of log: each successful POST created one
\* document; no other call of the system writes to the store
StoreAfter(st, log) ==
    LET posts == SelectSeq(log, LAMBDA e : e.op \in {"saveToSupermemory", "saveToMemory"} /\ e.ok)
    IN  st \o [i \in 1..Len(posts) |-> StoreDoc(posts[i], Len(st) + i)]

NO_DOCUMENTS == Body("No documents found matching your query.", <<>>)
SEARCH_ERROR == Body("Error searching memory. Please try again.", <<>>)
DOCUMENT_NOT_FOUND == Body("Document not found.", <<>>)

\* one GET; resp is the store's answer: a failure, or the results (the
\* field may be missing).  doc.tags.join throws on a result without tags;
\* every error is caught and the error string returned
searchMemory(resp) ==
    LET results == IF resp.hasResults THEN resp.results ELSE <<>>
    IN  Result(<<Effect("searchMemory", "", "", NoBody, resp.ok)>>, FALSE,
               IF ~resp.ok THEN SEARCH_ERROR
               ELSE IF Len(results) = 0 THEN NO_DOCUMENTS
               ELSE IF \E i \in 1..Len(results) : ~HasTags(results[i]) THEN SEARCH_ERROR
               ELSE Body("listing", [i \in 1..Len(results) |-> [n |-> i, id |-> results[i].id]]))

\* one GET by id: axios throws on a failed request and on a 404;
\* doc.tags.join throws on a document without tags; every error is caught
\* and the not-found string returned
retrieveDocument(st, documentId, ok) ==
    Result(<<Effect("retrieveDocument", "", "", NoBody, ok /\ documentId \in 1..Len(st))>>, FALSE,
           IF ok /\ documentId \in 1..Len(st) /\ HasTags(st[documentId])
           THEN Body("document", <<documentId>>)
           ELSE DOCUMENT_NOT_FOUND)

(***************************************************************************)
(* Handler invocations.  A frame is one invocation of a message handler;   *)
(* it moves from one await to the next.  Its log lists the calls it made.  *)
(***************************************************************************)
Slots == 1..MaxInFlight

NoSender == [id |-> 0, wid |-> <<>>]

Idle == [pc |-> "idle", ch |-> "", from |-> NoSender, text |-> <<>>,
         peak |-> FALSE, branch |-> "", resp |-> NoBody, log |-> <<>>,
         unhandled |-> FALSE]

\* the '<channel>_message' and '<channel>_response' literals of the handlers
MessageType(ch) == IF ch = "telegram" THEN "telegram_message" ELSE "whatsapp_message"
ResponseTypeMutantSame(ch) == MessageType(ch)
ResponseType(ch) == IF ch = "telegram" THEN "telegram_response" ELSE "whatsapp_response"

\* the error string of the handler's catch block
CatchBody(v, ch) ==
    IF ch = "whatsapp" THEN ERR_WHATSAPP
    ELSE IF v = 1 THEN ERR_TELEGRAM ELSE ERR_TELEGRAM_V2

\* a reply that is not awaited: the handler goes on (here, ends); a failed
\* send is a promise rejection nobody handles
Unawaited(f, body, ok) ==
    [f EXCEPT !.pc = "done",
              !.log = Append(@, ReplyEffect(f.ch, body, ok)),
              !.unhandled = ~ok]

CatchMutantSilent(v, f, ok) == [f EXCEPT !.pc = "done"]

\* the catch block of a text handler: log, then an un-awaited error reply
Catch(v, f, ok) == Unawaited(f, CatchBody(v, f.ch), ok)

\* a Telegraf command: the text is /name, alone or followed by arguments
IsCommand(text, name) ==
    LET c == <<"/">> \o name
    IN  text = c \/ (Len(text) > Len(c) /\ SubSeq(text, 1, Len(c) + 1) = c \o <<" ">>)

CMD_START == <<"s", "t", "a", "r", "t">>
CMD_HELP == <<"h", "e", "l", "p">>

\* the frame replaces slot s; an unhandled promise rejection ends the process
Commit(s, f) ==
    /\ h' = [h EXCEPT ![s] = f]
    /\ alive' = (alive /\ ~f.unhandled)
    /\ UNCHANGED <<variant, env, utcHour, ticks, fn, proc, store>>

Free(s) == alive /\ h[s].pc \in {"idle", "done"}

NewFrame(ch, from, text) ==
    [Idle EXCEPT !.ch = ch, !.from = from, !.text = text]

\* copy 1: a Telegram update passes bot.use, then bot.start, bot.command('help')
\* or bot.on('text'), up to the handler's first await
TelegramUpdate(s, fromId, text) ==
    /\ Free(s) /\ variant = 1
    /\ LET f == NewFrame("telegram", [id |-> fromId, wid |-> <<>>], text)
       IN  IF TelegramRejected(env, fromId)
           THEN \E ok, ok2 \in BOOLEAN :
                  \* return ctx.reply(...): a failed send reaches bot.catch
                  LET r == [f EXCEPT !.pc = "done",
                                     !.log = <<ReplyEffect("telegram", REJECT_ACCESS, ok)>>]
                  IN  Commit(s, IF ok THEN r ELSE Unawaited(r, ERR_UNEXPECTED, ok2))
           ELSE IF IsCommand(text, CMD_START)
           THEN \E ok, okSave \in BOOLEAN :
                  LET g == Unawaited(f, GREETING, ok)
                      a == saveToSupermemory(Body("Bot started by", <<>>),
                                             "telegram", "bot_start", okSave)
                  IN  Commit(s, [g EXCEPT !.log = @ \o a.log])
           ELSE IF IsCommand(text, CMD_HELP)
           THEN \E ok \in BOOLEAN : Commit(s, Unawaited(f, HELP, ok))
           ELSE Commit(s, [f EXCEPT !.pc = "typing",
                                    !.peak = getActiveEngine(utcHour).isPeakTime])

\* copy 2: bot.start, or bot.on('text') up to its first await
TelegramUpdate_v2(s, fromId, text) ==
    /\ Free(s) /\ variant = 2
    /\ LET f == NewFrame("telegram", [id |-> fromId, wid |-> <<>>], text)
       IN  IF IsCommand(text, CMD_START)
           THEN \E ok \in BOOLEAN : Commit(s, Unawaited(f, GREETING_V2, ok))
           ELSE IF TelegramRejected_v2(env, fromId)
           THEN \E ok, fatal \in BOOLEAN :
                  \* return ctx.reply(...): a failed send reaches the framework's
                  \* own error handler, which may or may not end the process
                  Commit(s, [f EXCEPT !.pc = "done",
                                      !.log = <<ReplyEffect("telegram", REJECT_INTERNAL, ok)>>,
                                      !.unhandled = ~ok /\ fatal])
           ELSE Commit(s, [f EXCEPT !.pc = "archIn",
                                    !.peak = getActiveEngine_v2(utcHour).isPeakTime])

\* copy 1: handleWhatsAppMessage up to its first await
WhatsAppMessage(s, from, text) ==
    /\ Free(s) /\ variant = 1
    /\ LET f == NewFrame("whatsapp", [id |-> 0, wid |-> from], text)
       IN  IF WhatsAppIgnored(env, from)
           THEN Commit(s, [f EXCEPT !.pc = "done"])
           ELSE Commit(s, [f EXCEPT !.pc = "archIn",
                                    !.peak = getActiveEngine(utcHour).isPeakTime])

\* copy 2: handleWhatsAppMessage up to its first await
WhatsAppMessage_v2(s, from, text) ==
    /\ Free(s) /\ variant = 2
    /\ LET f == NewFrame("whatsapp", [id |-> 0, wid |-> from], text)
       IN  IF WhatsAppIgnored_v2(env, from)
           THEN Commit(s, [f EXCEPT !.pc = "done"])
           ELSE Commit(s, [f EXCEPT !.pc = "archIn",
                                    !.peak = getActiveEngine_v2(utcHour).isPeakTime])

\* copy 1, Telegram: await ctx.sendChatAction('typing'), inside the try
Typing(s) ==
    /\ alive /\ h[s].pc = "typing"
    /\ \E ok, okErr \in BOOLEAN :
         LET f == [h[s] EXCEPT !.log = Append(@, Effect("sendChatAction", "", "telegram", NoBody, ok))]
         IN  Commit(s, IF ok THEN [f EXCEPT !.pc = "archIn"] ELSE Catch(variant, f, okErr))

\* a throw where the handler has no try around it (copy 2, Telegram, the
\* inbound archive call): the invocation ends with the error unhandled
Escape(f) == [f EXCEPT !.pc = "done", !.unhandled = TRUE]

\* await saveToSupermemory(inbound text), then the routing decision
ArchiveInbound(s) ==
    /\ alive /\ h[s].pc = "archIn"
    /\ \E ok, okErr \in BOOLEAN :
         LET f0 == h[s]
             a  == Archive(variant, Body(f0.ch, f0.text), f0.ch, MessageType(f0.ch), ok)
             f  == [f0 EXCEPT !.log = @ \o a.log]
         IN  Commit(s, IF a.threw
                       THEN (IF variant = 2 /\ f.ch = "telegram" THEN Escape(f)
                             ELSE Catch(variant, f, okErr))
                       ELSE [f EXCEPT !.pc = "branch",
                                      !.branch = Route(variant, f.ch, f.text)])

CallLlmMutantRecompute(s) ==
    /\ alive /\ h[s].pc = "branch"
    /\ BranchCall(h[s].branch, h[s].peak) # "saveToMemory"
    /\ \E ok, ok2, okErr \in BOOLEAN :
         LET f0   == h[s]
             now  == IF variant = 1 THEN getActiveEngine(utcHour).isPeakTime
                     ELSE getActiveEngine_v2(utcHour).isPeakTime
             call == BranchCall(f0.branch, now)
             r    == CASE call = "callGemini" -> callGemini(f0.text, ok)
                       [] call = "callClaude" ->
                            IF variant = 1 THEN callClaude(f0.text, ok)
                            ELSE callClaude_v2(f0.text, env.ANTHROPIC_API_KEY,
                                               env.GROQ_API_KEY, ok, ok2)
                       [] OTHER ->
                            IF variant = 1 THEN callGroq(f0.text, ok)
                            ELSE callGroq_v2(f0.text, env.GROQ_API_KEY, ok)
             f    == [f0 EXCEPT !.log = @ \o r.log]
         IN  Commit(s, IF r.threw THEN Catch(variant, f, okErr)
                       ELSE [f EXCEPT !.pc = "archOut", !.resp = r.value])

\* the LLM call of a branch
CallLlm(s) ==
    /\ alive /\ h[s].pc = "branch"
    /\ BranchCall(h[s].branch, h[s].peak) # "saveToMemory"
    /\ \E ok, ok2, okErr \in BOOLEAN :
         LET f0   == h[s]
             call == BranchCall(f0.branch, f0.peak)
             r    == CASE call = "callGemini" -> callGemini(f0.text, ok)
                       [] call = "callClaude" ->
                            IF variant = 1 THEN callClaude(f0.text, ok)
                            ELSE callClaude_v2(f0.text, env.ANTHROPIC_API_KEY,
                                               env.GROQ_API_KEY, ok, ok2)
                       [] OTHER ->
                            IF variant = 1 THEN callGroq(f0.text, ok)
                            ELSE callGroq_v2(f0.text, env.GROQ_API_KEY, ok)
             f    == [f0 EXCEPT !.log = @ \o r.log]
         IN  Commit(s, IF r.threw THEN Catch(variant, f, okErr)
                       ELSE [f EXCEPT !.pc = "archOut", !.resp = r.value])

\* the save branch: content extraction, memoryModule.saveToMemory, confirmation
SaveBranch(s) ==
    /\ alive /\ h[s].pc = "branch"
    /\ BranchCall(h[s].branch, h[s].peak) = "saveToMemory"
    /\ \E ok, okErr \in BOOLEAN, outcome \in MetaOutcomes :
         LET f0 == h[s]
             r  == saveToMemory(SaveContent(f0.text), f0.ch, outcome, ok)
             f  == [f0 EXCEPT !.log = @ \o r.log]
         IN  Commit(s, IF r.threw THEN Catch(variant, f, okErr)
                       ELSE [f EXCEPT !.pc = "archOut", !.resp = SavedBody(r.value)])

\* await saveToSupermemory(response)
ArchiveOutbound(s) ==
    /\ alive /\ h[s].pc = "archOut"
    /\ \E ok, okErr \in BOOLEAN :
         LET f0 == h[s]
             a  == Archive(variant, f0.resp, f0.ch, ResponseType(f0.ch), ok)
             f  == [f0 EXCEPT !.log = @ \o a.log]
         IN  Commit(s, IF a.threw THEN Catch(variant, f, okErr)
                       ELSE [f EXCEPT !.pc = "reply"])

SendReplyMutantEarly(s) ==
    /\ alive /\ h[s].pc = "archOut"
    /\ \E ok, okErr \in BOOLEAN :
         LET f == [h[s] EXCEPT !.log = Append(@, ReplyEffect(h[s].ch, h[s].resp, ok))]
         IN  Commit(s, IF ok THEN [f EXCEPT !.pc = "done"] ELSE Catch(variant, f, okErr))

\* await ctx.reply(response) / message.reply(response), inside the try
SendReply(s) ==
    /\ alive /\ h[s].pc = "reply"
    /\ \E ok, okErr \in BOOLEAN :
         LET f == [h[s] EXCEPT !.log = Append(@, ReplyEffect(h[s].ch, h[s].resp, ok))]
         IN  Commit(s, IF ok THEN [f EXCEPT !.pc = "done"] ELSE Catch(variant, f, okErr))

\* the wall clock reaches the next hour
Tick ==
    /\ alive /\ ticks < MaxTicks
    /\ utcHour' = (utcHour + 1) % HOURS_PER_DAY
    /\ ticks' = ticks + 1
    /\ UNCHANGED <<variant, env, alive, h, fn, proc, store>>

(***************************************************************************)
(* Inputs of the handler specification.                                    *)
(***************************************************************************)
ALLOWED_ID == <<"4", "2">>
TelegramSenders == {DigitsValue(ALLOWED_ID, 0), DigitsValue(ALLOWED_ID, 0) + 1}

FOUNDER_WID == RemoveFirst(FOUNDER_DEFAULT, "+") \o <<"@", "c", ".", "u", "s">>
STRANGER_WID == <<"9", "6", "6", "5", "0", "0", "0", "0", "0", "0", "0", "1", "@", "c", ".", "u", "s">>
WhatsAppSenders == {FOUNDER_WID, STRANGER_WID}

T_HI == <<"h", "i">>
T_INVOICE_SAVE == KW_INVOICE \o <<" ">> \o KW_SAVE
T_SAVE_DECISION == KW_SAVE_AR \o COLON_DECISION_AR
T_MEETING == KW_MEETING
T_CODE == KW_CODE
T_ANALYSIS == KW_ANALYSIS_AR
T_START == <<"/">> \o CMD_START
T_HELP == <<"/">> \o CMD_HELP

SampleTexts == {T_HI, T_INVOICE_SAVE, T_SAVE_DECISION, T_MEETING, T_CODE,
                T_ANALYSIS, T_START, T_HELP}

\* every variable set, the settings with one variable (or both keys) absent,
\* and the founder number written without its '+' 
BaseEnv ==
    [ALLOWED_TELEGRAM_USER_IDS   |-> ALLOWED_ID,
     FOUNDER_WHATSAPP_NUMBER     |-> FOUNDER_DEFAULT,
     GROQ_API_KEY                |-> TRUE,
     ANTHROPIC_API_KEY           |-> TRUE,
     GOOGLE_API_KEY              |-> TRUE,
     BRAVE_API_KEY               |-> TRUE,
     ZAI_API_KEY                 |-> TRUE,
     GOOGLE_SERVICE_ACCOUNT_JSON |-> TRUE,
     EMAIL_HOST                  |-> TRUE,
     EMAIL_PORT                  |-> TRUE,
     EMAIL_USER                  |-> TRUE,
     EMAIL_PASS                  |-> TRUE]

Envs ==
    {BaseEnv,
     [BaseEnv EXCEPT !.ALLOWED_TELEGRAM_USER_IDS = <<>>],
     [BaseEnv EXCEPT !.FOUNDER_WHATSAPP_NUMBER = <<>>],
     [BaseEnv EXCEPT !.FOUNDER_WHATSAPP_NUMBER = RemoveFirst(FOUNDER_DEFAULT, "+")],
     [BaseEnv EXCEPT !.GROQ_API_KEY = FALSE],
     [BaseEnv EXCEPT !.ANTHROPIC_API_KEY = FALSE],
     [BaseEnv EXCEPT !.GROQ_API_KEY = FALSE, !.ANTHROPIC_API_KEY = FALSE]}

\* the clock starts in the hour before a boundary of the peak window
\* (UTC 17 = 20:00 Riyadh, UTC 22 = 01:00 Riyadh)
ClockStarts == {(PEAK_START - RIYADH_OFFSET) - 1,
                (PEAK_END + HOURS_PER_DAY - RIYADH_OFFSET) - 1}

(***************************************************************************)
(* Module load: the clients and modules constructed at the top level of    *)
(* src/index.js, statement by statement.  Nothing catches an exception     *)
(* thrown there: it ends the process.                                      *)
(***************************************************************************)
\* the settings of the configuration surface that construction reads
ConfigSurface ==
    {"GROQ_API_KEY", "ANTHROPIC_API_KEY", "GOOGLE_API_KEY", "BRAVE_API_KEY",
     "ZAI_API_KEY", "ALLOWED_TELEGRAM_USER_IDS", "FOUNDER_WHATSAPP_NUMBER",
     "GOOGLE_SERVICE_ACCOUNT_JSON", "EMAIL_HOST", "EMAIL_PORT", "EMAIL_USER",
     "EMAIL_PASS"}

TextSettings == {"ALLOWED_TELEGRAM_USER_IDS", "FOUNDER_WHATSAPP_NUMBER"}

\* process.env without the variable v
Absent(e, v) == [e EXCEPT ![v] = IF v \in TextSettings THEN <<>> ELSE FALSE]

\* every variable set, or exactly one of them absent
BootEnvs == {BaseEnv} \cup {Absent(BaseEnv, v) : v \in ConfigSurface}

Modules == {"financialSuite", "schedulingModule", "recruitmentModule", "memoryModule"}

\* the LLM clients that exist after construction: copy 1 constructs all
\* three, copy 2 only those whose key is set
ClientsOf(v, e) ==
    IF v = 1 THEN {"groq", "anthropic", "genAI"}
    ELSE {c \in {"groq", "anthropic", "genAI"} :
            \/ c = "groq" /\ e.GROQ_API_KEY
            \/ c = "anthropic" /\ e.ANTHROPIC_API_KEY
            \/ c = "genAI" /\ e.GOOGLE_API_KEY}

Loading == [pc |-> "clients", clients |-> {}, built |-> {}, calendar |-> "none",
            bot |-> "none", whatsapp |-> "none"]

\* the process in service: modules built, the Telegram bot launched and the
\* WhatsApp client created
Constructed(v, e) ==
    [pc |-> "constructed", clients |-> ClientsOf(v, e), built |-> Modules,
     calendar |-> "ready", bot |-> "polling", whatsapp |-> "open"]

\* a constructor of a vendor SDK called with a credential: with the
\* credential set it returns; with undefined, it returns or throws, as the
\* SDK decides
SdkThrows(present, throws) == ~present /\ throws

\* config.EMAIL_PASS.replace(/"/g, ''): a TypeError when EMAIL_PASS is undefined
PassReplaceThrows(e) == ~e.EMAIL_PASS

\* nodemailer.createTransport({host, port: parseInt(EMAIL_PORT), secure, auth})
TransportThrows(e, throws) ==
    \/ PassReplaceThrows(e)
    \/ SdkThrows(e.EMAIL_HOST /\ e.EMAIL_PORT /\ e.EMAIL_USER, throws)

\* the statement has run: it threw, or the next statement is reached
AfterStatement(p, threw, next) ==
    /\ proc' = [p EXCEPT !.pc = IF threw THEN "crashed" ELSE next]
    /\ alive' = (alive /\ ~threw)
    /\ UNCHANGED <<variant, env, utcHour, ticks, h, fn, store>>

\* copy 1: three unguarded constructors; copy 2: each guarded by its key
ConstructClients ==
    /\ alive /\ proc.pc = "clients"
    /\ \E tg, ta, tx \in BOOLEAN :
         LET threw == /\ variant = 1
                      /\ \/ SdkThrows(env.GROQ_API_KEY, tg)
                         \/ SdkThrows(env.ANTHROPIC_API_KEY, ta)
                         \/ SdkThrows(env.GOOGLE_API_KEY, tx)
         IN  AfterStatement([proc EXCEPT !.clients = IF threw THEN {} ELSE ClientsOf(variant, env)],
                            threw, "financial")

\* new FinancialSuite(config)
ConstructFinancialSuite ==
    /\ alive /\ proc.pc = "financial"
    /\ \E ta, tx, tm, tk \in BOOLEAN :
         LET threw == \/ SdkThrows(env.ANTHROPIC_API_KEY, ta)
                      \/ SdkThrows(env.GOOGLE_API_KEY, tx)
                      \/ TransportThrows(env, tm)
                      \/ SdkThrows(env.GOOGLE_SERVICE_ACCOUNT_JSON, tk)
         IN  AfterStatement([proc EXCEPT !.built = IF threw THEN @ ELSE @ \cup {"financialSuite"}],
                            threw, "scheduling")

\* new SchedulingModule(config): GoogleAuth, the un-awaited
\* initializeCalendar(), then the mail transport
ConstructSchedulingModule ==
    /\ alive /\ proc.pc = "scheduling"
    /\ \E tk, tm \in BOOLEAN :
         LET authThrew == SdkThrows(env.GOOGLE_SERVICE_ACCOUNT_JSON, tk)
             threw     == authThrew \/ TransportThrows(env, tm)
         IN  AfterStatement([proc EXCEPT !.built = IF threw THEN @ ELSE @ \cup {"schedulingModule"},
                                         !.calendar = IF authThrew THEN @ ELSE "pending"],
                            threw, "recruitment")

\* initializeCalendar settles: auth.getClient() resolves, or rejects with
\* nobody handling the rejection
CalendarInit ==
    /\ alive /\ proc.calendar = "pending"
    /\ \E rejects \in BOOLEAN :
         LET rejected == SdkThrows(env.GOOGLE_SERVICE_ACCOUNT_JSON, rejects)
         IN  /\ proc' = [proc EXCEPT !.calendar = IF rejected THEN "rejected" ELSE "ready",
                                     !.pc = IF rejected THEN "crashed" ELSE @]
             /\ alive' = ~rejected
             /\ UNCHANGED <<variant, env, utcHour, ticks, h, fn, store>>

\* new RecruitmentModule(config)
ConstructRecruitmentModule ==
    /\ alive /\ proc.pc = "recruitment"
    /\ \E ta \in BOOLEAN :
         LET threw == SdkThrows(env.ANTHROPIC_API_KEY, ta)
         IN  AfterStatement([proc EXCEPT !.built = IF threw THEN @ ELSE @ \cup {"recruitmentModule"}],
                            threw, "memory")

\* new MemoryModule(config): its initializeWhatsApp() catches its own errors
ConstructMemoryModule ==
    /\ alive /\ proc.pc = "memory"
    /\ \E ta \in BOOLEAN :
         LET threw == SdkThrows(env.ANTHROPIC_API_KEY, ta)
         IN  AfterStatement([proc EXCEPT !.built = IF threw THEN @ ELSE @ \cup {"memoryModule"}],
                            threw, "bot")

\* new Telegraf(config.TELEGRAM_BOT_TOKEN), the token set
ConstructBot ==
    /\ alive /\ proc.pc = "bot"
    /\ AfterStatement(proc, FALSE, "constructed")

InitBoot ==
    /\ variant \in {1, 2}
    /\ env \in BootEnvs
    /\ utcHour = 0
    /\ ticks = 0
    /\ alive = TRUE
    /\ h = [s \in Slots |-> Idle]
    /\ fn = FnNone
    /\ proc = Loading
    /\ store = <<>>

NextBoot ==
    \/ ConstructClients
    \/ ConstructFinancialSuite
    \/ ConstructSchedulingModule
    \/ CalendarInit
    \/ ConstructRecruitmentModule
    \/ ConstructMemoryModule
    \/ ConstructBot

SpecBoot == InitBoot /\ [][NextBoot]_vars

\* the handlers of copy 1 never read the key settings
Init ==
    /\ variant \in {1, 2}
    /\ env \in Envs
    /\ variant = 1 => (env.GROQ_API_KEY /\ env.ANTHROPIC_API_KEY)
    /\ utcHour \in ClockStarts
    /\ ticks = 0
    /\ alive = TRUE
    /\ h = [s \in Slots |-> Idle]
    /\ fn = FnNone
    /\ proc = Constructed(variant, env)
    /\ store = <<>>

\* the handler steps of slot s
Step(s) ==
    \/ \E id \in TelegramSenders, t \in SampleTexts : TelegramUpdate(s, id, t)
    \/ \E id \in TelegramSenders, t \in SampleTexts : TelegramUpdate_v2(s, id, t)
    \/ \E w \in WhatsAppSenders, t \in SampleTexts : WhatsAppMessage(s, w, t)
    \/ \E w \in WhatsAppSenders, t \in SampleTexts : WhatsAppMessage_v2(s, w, t)
    \/ Typing(s)
    \/ ArchiveInbound(s)
    \/ CallLlm(s)
    \/ SaveBranch(s)
    \/ ArchiveOutbound(s)
    \/ SendReply(s)

\* one invocation at a time (the handlers share no mutable state)
Next == Step(1) \/ Tick

Spec == Init /\ [][Next]_vars

(***************************************************************************)
(* SpecFn: the functions of the modules applied to drawn inputs.           *)
(***************************************************************************)
MaxReply == 3        \* an LLM reply is at most this many tokens

RepliesUpTo(n) == UNION {[1..k -> ReplyTokens] : k \in 0..n}

\* every outcome of one LLM request
LlmOutcomes == {LlmReply(FALSE, <<>>)} \cup {LlmReply(TRUE, t) : t \in RepliesUpTo(MaxReply)}

\* contents shorter than, as long as, and longer than the summary
MemoryContents ==
    {DECISION_AR} \cup {[i \in 1..n |-> "x"] : n \in {SUMMARY_LIMIT, SUMMARY_LIMIT + 2}}

\* response.data.results of the search vendor
CandidateLists == {<<>>, <<"c1">>, <<"c1", "c2">>}

\* recruitmentModule.searchLinkedInCandidates(criteria)
ApplySearchCandidates ==
    /\ fn.kind = "rank" /\ fn.pc = "in"
    /\ fn' = [fn EXCEPT !.pc = "out",
                        !.out = searchLinkedInCandidates(fn.arg.criteria, fn.arg.found,
                                                         fn.arg.ok, fn.arg.outcome)]
    /\ UNCHANGED <<variant, env, utcHour, ticks, alive, h, proc, store>>

\* memoryModule.saveToMemory(content) with the default source
ApplySaveToMemory ==
    /\ fn.kind = "memory" /\ fn.pc = "in"
    /\ fn' = [fn EXCEPT !.pc = "out",
                        !.out = saveToMemory(fn.arg.content, "manual",
                                             fn.arg.outcome, fn.arg.ok)]
    /\ UNCHANGED <<variant, env, utcHour, ticks, alive, h, proc, store>>

(***************************************************************************)
(* SpecFn: inputs drawn, then the function applied.                        *)
(***************************************************************************)
InitFn ==
    /\ variant = 1
    /\ env = BaseEnv
    /\ utcHour = 0
    /\ ticks = 0
    /\ alive = TRUE
    /\ h = [s \in Slots |-> Idle]
    /\ proc = Constructed(variant, env)
    /\ store = <<>>
    /\ \/ \E hr \in Hours : fn = [FnNone EXCEPT !.kind = "engine", !.hour = hr]
       \/ \E t \in TextsUpTo(MaxParts) : fn = [FnNone EXCEPT !.kind = "route", !.text = t]
       \/ \E c \in MemoryContents, o \in LlmOutcomes, ok \in BOOLEAN :
             fn = [FnNone EXCEPT !.kind = "memory",
                                 !.arg = [content |-> c, outcome |-> o, ok |-> ok]]
       \/ \E c \in CandidateLists, o \in LlmOutcomes, ok, skills \in BOOLEAN :
             fn = [FnNone EXCEPT !.kind = "rank",
                                 !.arg = [criteria |-> [skills |-> skills], found |-> c,
                                          ok |-> ok, outcome |-> o]]

NextFn ==
    \/ ApplyEngine
    \/ ApplyRoute
    \/ ApplySaveToMemory
    \/ ApplySearchCandidates

SpecFn == InitFn /\ [][NextFn]_vars

(***************************************************************************)
(* SpecStore: the functions that call the memory store, against the        *)
(* store.                                                                  *)
(***************************************************************************)
MaxDocs == 2         \* documents created in one behaviour

\* the call has returned
Returned(kind, arg, out) ==
    /\ fn' = [FnNone EXCEPT !.kind = kind, !.pc = "out", !.arg = arg, !.out = out]
    /\ store' = StoreAfter(store, out.log)
    /\ UNCHANGED <<variant, env, utcHour, ticks, alive, h, proc>>

\* saveToSupermemory(content, source, userId, messageType), as the handlers call it
StoreArchive ==
    /\ Len(store) < MaxDocs
    /\ \E ch \in {"telegram", "whatsapp"}, response, ok \in BOOLEAN :
         LET type == IF response THEN ResponseType(ch) ELSE MessageType(ch)
         IN  Returned("archive", [source |-> ch, type |-> type, ok |-> ok],
                      Archive(variant, Body(ch, DECISION_AR), ch, type, ok))

\* memoryModule.saveToMemory(content, source, userId)
StoreSave ==
    /\ Len(store) < MaxDocs
    /\ \E ch \in {"telegram", "whatsapp"}, ok \in BOOLEAN,
          o \in {LlmReply(TRUE, <<"{", "m", "}">>), LlmReply(TRUE, <<"{", "}">>),
                 LlmReply(FALSE, <<>>)} :
         Returned("save", [source |-> ch, outcome |-> o, ok |-> ok],
                  saveToMemory(DECISION_AR, ch, o, ok))

\* the answers the store can give to a search: a failure, no results
\* field, or up to two of its documents in an order of its choice
SearchResponses(st) ==
    {[ok |-> FALSE, hasResults |-> FALSE, results |-> <<>>],
     [ok |-> TRUE, hasResults |-> FALSE, results |-> <<>>],
     [ok |-> TRUE, hasResults |-> TRUE, results |-> <<>>]}
    \cup {[ok |-> TRUE, hasResults |-> TRUE, results |-> <<st[i]>>] : i \in 1..Len(st)}
    \cup {[ok |-> TRUE, hasResults |-> TRUE, results |-> <<st[p[1]], st[p[2]]>>] :
            p \in {q \in (1..Len(st)) \X (1..Len(st)) : q[1] # q[2]}}

\* String.prototype.startsWith
StartsWith(t, p) == Len(t) >= Len(p) /\ SubSeq(t, 1, Len(p)) = p

CMD_SAVE == <<"/", "s", "a", "v", "e">>
CMD_SEARCH == <<"/", "s", "e", "a", "r", "c", "h">>
CMD_RECALL == <<"/", "r", "e", "c", "a", "l", "l">>
MEMORY_SAVED == Body("Document saved to corporate memory", <<>>)

\* MemoryModule.isAuthorizedUser: the placeholder admits every sender
isAuthorizedUser(userId) == TRUE

\* text.replace(cmd, '').trim() for a text that starts with cmd
CommandArgument(text, cmd) == Trim(SubSeq(text, Len(cmd) + 1, Len(text)))

\* MemoryModule.handleWhatsAppMessage: getChat, the sender check, then the
\* command by the start of the text; every error is caught and logged
MemoryWhatsAppMessage(st, from, text, okChat, outcome, ok, resp, okReply) ==
    IF ~okChat \/ ~isAuthorizedUser(from) THEN Result(<<>>, FALSE, NoBody)
    ELSE LET r == IF StartsWith(text, CMD_SAVE)
                  THEN LET x == saveToMemory(CommandArgument(text, CMD_SAVE), "whatsapp", outcome, ok)
                       IN  Result(x.log, x.threw, MEMORY_SAVED)
                  ELSE IF StartsWith(text, CMD_SEARCH) THEN searchMemory(resp)
                  ELSE IF StartsWith(text, CMD_RECALL)
                  THEN retrieveDocument(st, DigitsValue(CommandArgument(text, CMD_RECALL), 0), ok)
                  ELSE Result(<<>>, TRUE, NoBody)
         IN  IF r.threw THEN Result(r.log, FALSE, NoBody)
             ELSE Result(Append(r.log, ReplyEffect("whatsapp", r.value, okReply)), FALSE, r.value)

MemoryCommands ==
    {CMD_SAVE \o <<" ">> \o DECISION_AR, CMD_SEARCH \o <<" ">> \o DECISION_AR,
     CMD_RECALL \o <<" ", "1">>, T_HI}

\* a message reaches the WhatsApp client of the MemoryModule
StoreWhatsAppCommand ==
    /\ Len(store) < MaxDocs
    /\ \E from \in WhatsAppSenders, text \in MemoryCommands, okChat, ok, okReply \in BOOLEAN :
         LET o    == LlmReply(TRUE, <<"{", "m", "}">>)
             resp == [ok |-> ok, hasResults |-> ok, results |-> IF ok THEN store ELSE <<>>]
         IN  Returned("whatsappCommand", [from |-> from, text |-> text],
                      MemoryWhatsAppMessage(store, from, text, okChat, o, ok, resp, okReply))

\* memoryModule.searchMemory(query)
StoreSearch ==
    \E resp \in SearchResponses(store) : Returned("search", resp, searchMemory(resp))

\* memoryModule.retrieveDocument(documentId)
StoreRecall ==
    \E id \in 1..(MaxDocs + 1), ok \in BOOLEAN :
        Returned("recall", [id |-> id, ok |-> ok], retrieveDocument(store, id, ok))

InitStore ==
    /\ variant \in {1, 2}
    /\ env = BaseEnv
    /\ utcHour = 0
    /\ ticks = 0
    /\ alive = TRUE
    /\ h = [s \in Slots |-> Idle]
    /\ fn = FnNone
    /\ proc = Constructed(variant, env)
    /\ store = <<>>

NextStore == StoreArchive \/ StoreSave \/ StoreSearch \/ StoreRecall \/ StoreWhatsAppCommand

SpecStore == InitStore /\ [][NextStore]_vars

(***************************************************************************)
(* SpecConc: message delivery as the transports do it.  The listeners are  *)
(* async functions: the emitter calls the listener and goes on when it     *)
(* reaches its first await, so the next message is delivered while earlier *)
(* invocations are parked at an await.  The source keeps no queue or lock. *)
(***************************************************************************)
ConcTexts == {T_HI, T_SAVE_DECISION}

\* a message from the founder arrives, or an invocation goes on from its await
ConcStep(s) ==
    \/ \E t \in ConcTexts : TelegramUpdate(s, DigitsValue(ALLOWED_ID, 0), t)
    \/ \E t \in ConcTexts : TelegramUpdate_v2(s, DigitsValue(ALLOWED_ID, 0), t)
    \/ \E t \in ConcTexts : WhatsAppMessage(s, FOUNDER_WID, t)
    \/ \E t \in ConcTexts : WhatsAppMessage_v2(s, FOUNDER_WID, t)
    \/ Typing(s)
    \/ ArchiveInbound(s)
    \/ CallLlm(s)
    \/ SaveBranch(s)
    \/ ArchiveOutbound(s)
    \/ SendReply(s)

InitConc ==
    /\ variant \in {1, 2}
    /\ env = BaseEnv
    /\ utcHour = 0
    /\ ticks = 0
    /\ alive = TRUE
    /\ h = [s \in Slots |-> Idle]
    /\ fn = FnNone
    /\ proc = Constructed(variant, env)
    /\ store = <<>>

NextConc == \E s \in Slots : ConcStep(s)

SpecConc == InitConc /\ [][NextConc]_vars

(***************************************************************************)
(* SpecDown: the signal handlers.  proc.bot is the Telegram bot ("none"    *)
(* when copy 2 did not create it), proc.whatsapp the WhatsApp client       *)
(* ("none" when its construction threw inside initializeWhatsApp).         *)
(***************************************************************************)
Signals == {"SIGINT", "SIGTERM"}

\* a shutdown step: the handler frames are left as they are
ProcStep(p, exits) ==
    /\ proc' = p
    /\ alive' = (alive /\ ~exits)
    /\ UNCHANGED <<variant, env, utcHour, ticks, h, fn, store>>

\* copy 1: process.once(sig, async () => { await bot.stop(sig); ...
Signal(sig) ==
    /\ alive /\ variant = 1 /\ proc.pc = "constructed"
    /\ ProcStep([proc EXCEPT !.pc = "stopped", !.bot = "stopped"], FALSE)

\* copy 1: ... if (whatsappClient) { await whatsappClient.destroy(); } ...
DestroyWhatsApp ==
    /\ alive /\ variant = 1 /\ proc.pc = "stopped"
    /\ ProcStep([proc EXCEPT !.pc = "closed",
                             !.whatsapp = IF @ = "none" THEN @ ELSE "destroyed"], FALSE)

\* copy 1: ... process.exit(0); })
Exit ==
    /\ alive /\ variant = 1 /\ proc.pc = "closed"
    /\ ProcStep([proc EXCEPT !.pc = "exited"], TRUE)

\* copy 2: process.once(sig, () => { if (bot) bot.stop(sig); process.exit(0); })
Signal_v2(sig) ==
    /\ alive /\ variant = 2 /\ proc.pc = "constructed"
    /\ ProcStep([proc EXCEPT !.pc = "exited",
                             !.bot = IF @ = "none" THEN @ ELSE "stopped"], TRUE)

\* the handlers while the transports deliver messages
DownStep(s) ==
    \/ proc.bot = "polling" /\ TelegramUpdate(s, DigitsValue(ALLOWED_ID, 0), T_HI)
    \/ proc.bot = "polling" /\ TelegramUpdate_v2(s, DigitsValue(ALLOWED_ID, 0), T_HI)
    \/ proc.whatsapp = "open" /\ WhatsAppMessage(s, FOUNDER_WID, T_HI)
    \/ proc.whatsapp = "open" /\ WhatsAppMessage_v2(s, FOUNDER_WID, T_HI)
    \/ Typing(s)
    \/ ArchiveInbound(s)
    \/ CallLlm(s)
    \/ ArchiveOutbound(s)
    \/ SendReply(s)

InitDown ==
    /\ variant \in {1, 2}
    /\ env = BaseEnv
    /\ utcHour = 0
    /\ ticks = 0
    /\ alive = TRUE
    /\ h = [s \in Slots |-> Idle]
    /\ fn = FnNone
    /\ \E b \in {"polling"} \cup (IF variant = 2 THEN {"none"} ELSE {}),
          w \in {"none", "open"} :
         proc = [Constructed(variant, env) EXCEPT !.bot = b, !.whatsapp = w]
    /\ store = <<>>

NextDown ==
    \/ DownStep(1)
    \/ \E sig \in Signals : Signal(sig)
    \/ DestroyWhatsApp
    \/ Exit
    \/ \E sig \in Signals : Signal_v2(sig)

SpecDown == InitDown /\ [][NextDown]_vars

(***************************************************************************)
(* SpecStart: start of the transports, after the modules are built, and    *)
(* the events of the WhatsApp client.  proc.token is the kind of           *)
(* TELEGRAM_BOT_TOKEN, proc.ready the whatsappReady flag, proc.lastConn    *)
(* the latest of the client's 'ready' and 'disconnected' events.           *)
(***************************************************************************)
\* TELEGRAM_BOT_TOKEN: accepted by Telegram, not set, set without a ':',
\* or of the right form and rejected by Telegram
TokenKinds == {"valid", "missing", "noColon", "rejected"}

Starting(v, e, token) ==
    [pc |-> "bot", clients |-> ClientsOf(v, e), built |-> Modules, calendar |-> "ready",
     bot |-> "none", whatsapp |-> "none", token |-> token,
     ready |-> FALSE, lastConn |-> "none", lastEvent |-> "none"]

\* a startup statement or an event listener has run
StartStep(p, ends) ==
    /\ proc' = p
    /\ alive' = (alive /\ ~ends)
    /\ UNCHANGED <<variant, env, utcHour, ticks, h, fn, store>>

\* copy 1: const bot = new Telegraf(config.TELEGRAM_BOT_TOKEN), at the top level
NewTelegraf ==
    /\ alive /\ variant = 1 /\ proc.pc = "bot"
    /\ \E throws \in BOOLEAN :
         IF SdkThrows(proc.token = "valid", throws)
         THEN StartStep([proc EXCEPT !.pc = "crashed"], TRUE)
         ELSE StartStep([proc EXCEPT !.pc = "launch", !.bot = "created"], FALSE)

\* copy 2: the bot is constructed only for a token with a ':' in it, inside a try
NewTelegraf_v2 ==
    /\ alive /\ variant = 2 /\ proc.pc = "bot"
    /\ \E throws \in BOOLEAN :
         LET made == /\ proc.token \in {"valid", "rejected"}
                     /\ ~SdkThrows(proc.token = "valid", throws)
         IN  StartStep([proc EXCEPT !.pc = "launch",
                                    !.bot = IF made THEN "created" ELSE "none"], FALSE)

\* copy 1, startBot: await bot.launch(...) inside try; catch: process.exit(1)
Launch ==
    /\ alive /\ variant = 1 /\ proc.pc = "launch"
    /\ IF proc.token = "valid"
       THEN StartStep([proc EXCEPT !.pc = "whatsapp", !.bot = "polling"], FALSE)
       ELSE StartStep([proc EXCEPT !.pc = "exited"], TRUE)

\* copy 2: if (bot) { ...handlers...; bot.launch(); } -- launch is not awaited
Launch_v2 ==
    /\ alive /\ variant = 2 /\ proc.pc = "launch"
    /\ StartStep([proc EXCEPT !.pc = "whatsapp",
                              !.bot = IF @ = "created" THEN "launching" ELSE @], FALSE)

\* copy 2: the promise of bot.launch() settles; nothing handles its rejection
LaunchSettled_v2 ==
    /\ alive /\ variant = 2 /\ proc.bot = "launching"
    /\ IF proc.token = "valid"
       THEN StartStep([proc EXCEPT !.bot = "polling"], FALSE)
       ELSE StartStep([proc EXCEPT !.pc = "crashed"], TRUE)

\* initializeWhatsApp(): new Client, listeners, await initialize(), all in
\* one try whose catch only logs
InitializeWhatsApp ==
    /\ alive /\ proc.pc = "whatsapp"
    /\ \E w \in {"none", "failed", "open"} :
         StartStep([proc EXCEPT !.pc = "serving", !.whatsapp = w], FALSE)

OnDisconnectedMutantKeep ==
    /\ alive /\ proc.whatsapp = "open"
    /\ StartStep([proc EXCEPT !.lastConn = "disconnected"], FALSE)

\* whatsappClient.on('ready', () => { whatsappReady = true; })
OnReady ==
    /\ alive /\ proc.whatsapp = "open"
    /\ StartStep([proc EXCEPT !.ready = TRUE, !.lastConn = "ready"], FALSE)

\* whatsappClient.on('disconnected', (reason) => { whatsappReady = false; })
OnDisconnected ==
    /\ alive /\ proc.whatsapp = "open"
    /\ StartStep([proc EXCEPT !.ready = FALSE, !.lastConn = "disconnected"], FALSE)

WhatsAppOtherEvents == {"qr", "message", "error"}

\* the 'qr' and 'error' listeners log; the 'message' listener runs the
\* message handler, which does not assign the flag
OnOtherEvent(ev) ==
    /\ alive /\ proc.whatsapp = "open"
    /\ StartStep([proc EXCEPT !.lastEvent = ev], FALSE)

InitStart ==
    /\ variant \in {1, 2}
    /\ env = BaseEnv
    /\ utcHour = 0
    /\ ticks = 0
    /\ alive = TRUE
    /\ h = [s \in Slots |-> Idle]
    /\ fn = FnNone
    /\ \E token \in TokenKinds : proc = Starting(variant, env, token)
    /\ store = <<>>

NextStart ==
    \/ NewTelegraf
    \/ NewTelegraf_v2
    \/ Launch
    \/ Launch_v2
    \/ LaunchSettled_v2
    \/ InitializeWhatsApp
    \/ OnReady
    \/ OnDisconnected
    \/ \E ev \in WhatsAppOtherEvents : OnOtherEvent(ev)

SpecStart == InitStart /\ [][NextStart]_vars

(***************************************************************************)
(* SpecSlots: SchedulingModule.findAvailableSlots                          *)
(* (src/modules/scheduling-module.js).  A Date is a number of minutes      *)
(* since 00:00 of day 0, which is a Thursday (2024-02-01, the day of the   *)
(* README's example); the loop runs one statement group per step.          *)
(***************************************************************************)
MaxDay == 3                  \* startDate and endDate are on days 0..MaxDay

MINUTES_PER_HOUR == 60
DEFAULT_DURATION == 60       \* duration = 60
WORKING_HOURS_END == 17      \* workingHoursEnd = 17
FIRST_WEEKDAY == 4           \* getDay() of day 0
SUNDAY == 0
SATURDAY == 6

MinutesPerDay == HOURS_PER_DAY * MINUTES_PER_HOUR

\* the day a Date is on, and Date.prototype.getDay
DayOf(t) == t \div MinutesPerDay
GetDay(t) == (FIRST_WEEKDAY + DayOf(t)) % 7

\* slotStart = new Date(currentDate); slotStart.setHours(hour, 0, 0, 0)
SlotStart(currentDate, hour) == DayOf(currentDate) * MinutesPerDay + hour * MINUTES_PER_HOUR

\* slotEnd = new Date(slotStart); slotEnd.setMinutes(slotEnd.getMinutes() + duration)
SlotEnd(slotStart, duration) == slotStart + duration

\* what calendar.freebusy.query answers: a failure, or the busy intervals
FreeBusyAnswers == {[ok |-> FALSE, busy |-> 0], [ok |-> TRUE, busy |-> 0], [ok |-> TRUE, busy |-> 1]}

\* checkAvailability: isFree = no busy interval; every error is thrown again
checkAvailability(startTime, endTime, answer) ==
    Result(<<>>, ~answer.ok, [isFree |-> answer.ok /\ answer.busy = 0,
                              start |-> startTime, end |-> endTime])

\* the options the calls are made with: the dates, with the time of day of
\* startDate, the duration, and the working hours
SlotOptions ==
    [startDate : {d * MinutesPerDay + m : d \in 0..MaxDay, m \in {0, 10 * MINUTES_PER_HOUR}},
     endDate : {d * MinutesPerDay : d \in 0..MaxDay},
     duration : {DEFAULT_DURATION, 2 * DEFAULT_DURATION},
     workingHoursStart : {WORKING_HOURS_END - 2},
     workingHoursEnd : {WORKING_HOURS_END}]

\* the locals of findAvailableSlots
SlotsFrame(currentDate, hour, availableSlots, checked) ==
    [currentDate |-> currentDate, hour |-> hour,
     availableSlots |-> availableSlots, checked |-> checked]

SlotsStep(pc, frame) ==
    /\ fn' = [fn EXCEPT !.pc = pc, !.out = frame]
    /\ UNCHANGED <<variant, env, utcHour, ticks, alive, h, proc, store>>

\* while (currentDate <= finalDate), the weekend test, and the start of the
\* for loop; a weekend day goes straight to setDate(getDate() + 1)
WhileTest ==
    /\ fn.kind = "slots" /\ fn.pc = "while"
    /\ fn.out.currentDate <= fn.arg.endDate
    /\ IF GetDay(fn.out.currentDate) # SUNDAY /\ GetDay(fn.out.currentDate) # SATURDAY
       THEN SlotsStep("for", [fn.out EXCEPT !.hour = fn.arg.workingHoursStart])
       ELSE SlotsStep("while", [fn.out EXCEPT !.currentDate = @ + MinutesPerDay])

CheckSlotMutantAbort ==
    /\ fn.kind = "slots" /\ fn.pc = "for"
    /\ fn.out.hour < fn.arg.workingHoursEnd
    /\ \E answer \in FreeBusyAnswers :
         LET slotStart == SlotStart(fn.out.currentDate, fn.out.hour)
             slotEnd   == SlotEnd(slotStart, fn.arg.duration)
             a         == checkAvailability(slotStart, slotEnd, answer)
             slot      == [start |-> slotStart, end |-> slotEnd]
         IN  SlotsStep(IF a.threw THEN "out" ELSE "for",
                       [fn.out EXCEPT
                          !.hour = @ + 1,
                          !.checked = Append(@, [slot |-> slot, answer |-> answer]),
                          !.availableSlots = IF ~a.threw /\ a.value.isFree
                                             THEN Append(@, slot) ELSE @])

\* one pass of the for loop: the slot of this hour, checkAvailability in
\* its own try, push when free; an error is logged and the loop goes on
CheckSlot ==
    /\ fn.kind = "slots" /\ fn.pc = "for"
    /\ fn.out.hour < fn.arg.workingHoursEnd
    /\ \E answer \in FreeBusyAnswers :
         LET slotStart == SlotStart(fn.out.currentDate, fn.out.hour)
             slotEnd   == SlotEnd(slotStart, fn.arg.duration)
             a         == checkAvailability(slotStart, slotEnd, answer)
             slot      == [start |-> slotStart, end |-> slotEnd]
         IN  SlotsStep("for",
                       [fn.out EXCEPT
                          !.hour = @ + 1,
                          !.checked = Append(@, [slot |-> slot, answer |-> answer]),
                          !.availableSlots = IF ~a.threw /\ a.value.isFree
                                             THEN Append(@, slot) ELSE @])

\* the for loop is over: currentDate.setDate(currentDate.getDate() + 1)
NextDay ==
    /\ fn.kind = "slots" /\ fn.pc = "for"
    /\ fn.out.hour >= fn.arg.workingHoursEnd
    /\ SlotsStep("while", [fn.out EXCEPT !.currentDate = @ + MinutesPerDay])

\* return availableSlots
ReturnSlots ==
    /\ fn.kind = "slots" /\ fn.pc = "while"
    /\ fn.out.currentDate > fn.arg.endDate
    /\ SlotsStep("out", fn.out)

InitSlots ==
    /\ variant = 1
    /\ env = BaseEnv
    /\ utcHour = 0
    /\ ticks = 0
    /\ alive = TRUE
    /\ h = [s \in Slots |-> Idle]
    /\ \E o \in SlotOptions :
         fn = [FnNone EXCEPT !.kind = "slots", !.pc = "while", !.arg = o,
                             !.out = SlotsFrame(o.startDate, 0, <<>>, <<>>)]
    /\ proc = Constructed(variant, env)
    /\ store = <<>>

NextSlots == WhileTest \/ CheckSlot \/ NextDay \/ ReturnSlots

SpecSlots == InitSlots /\ [][NextSlots]_vars

\* the scheduler runs a call that can take a step
SpecSlotsFair == SpecSlots /\ WF_vars(NextSlots)

(***************************************************************************)
(* Properties.                                                             *)
(***************************************************************************)
\* positions of the log of f whose call is one of ops
At(f, ops) == {i \in 1..Len(f.log) : f.log[i].op \in ops}

LlmOps == {"claude", "groq", "gemini"}
VendorOps == LlmOps \cup {"metadata"}
PostOps == {"saveToSupermemory", "saveToMemory"}

\* f handles a text message (not a command), past the access check
IsChat(f) == f.pc \notin {"idle"} /\ ~IsCommand(f.text, CMD_START) /\ ~IsCommand(f.text, CMD_HELP)

\* f ended by sending the generated reply
SentGenerated(f) ==
    /\ f.pc = "done" /\ f.log # <<>>
    /\ f.log[Len(f.log)] = ReplyEffect(f.ch, f.resp, TRUE)
    /\ f.resp # NoBody

PeakRiyadhHours == {20, 21, 22, 23, 0}

\* C1: for every UTC hour the engine decision of both copies is CLAUDE/ZAI
\* exactly when (hour + 3) mod 24 is one of 20, 21, 22, 23, 0, and GROQ/BRAVE
\* otherwise; UTC 17 and UTC 21 are peak, UTC 22 is off-peak.
C1_EngineByHour ==
    (fn.kind = "engine" /\ fn.pc = "out") =>
        \A i \in 1..2 :
            LET e    == fn.engine[i]
                peak == ((fn.hour + 3) % 24) \in PeakRiyadhHours
            IN  /\ peak => (e.primary = "CLAUDE" /\ e.agentic = "ZAI")
                /\ ~peak => (e.primary = "GROQ" /\ e.agentic = "BRAVE")
                /\ fn.hour \in {17, 21} => e.primary = "CLAUDE"
                /\ fn.hour = 22 => e.primary = "GROQ"

C1_Witness ==
    /\ fn.kind = "engine" /\ fn.pc = "out" /\ fn.hour = 17
    /\ fn.engine[1].primary = "CLAUDE" /\ fn.engine[2].agentic = "ZAI"

\* C2: a Telegram update (text, /start or any command) from a sender other
\* than the configured allowed user gets the fixed rejection string (the
\* wording of either copy is accepted here) and makes no vendor call and no
\* store call, in both copies.
C2_UnauthorizedTelegramRejected ==
    \A s \in Slots :
        LET f == h[s]
        IN  (/\ f.pc # "idle" /\ f.ch = "telegram"
             /\ env.ALLOWED_TELEGRAM_USER_IDS # <<>>
             /\ f.from.id # DigitsValue(env.ALLOWED_TELEGRAM_USER_IDS, 0))
            => /\ \E i \in 1..Len(f.log) :
                     /\ f.log[i].op = "reply"
                     /\ f.log[i].body \in {REJECT_ACCESS, REJECT_INTERNAL}
               /\ At(f, VendorOps \cup PostOps) = {}

\* C3: a WhatsApp message from a sender that is not the configured founder
\* number gets no reply and makes no call; a message from the founder's id
\* (the number without '+', then '@c.us') is processed and answered.
C3_WhatsAppFounderOnly ==
    \A s \in Slots :
        LET f      == h[s]
            number == RemoveFirst(ConfigFounderNumber(env), "+")
        IN  (f.pc = "done" /\ f.ch = "whatsapp")
            => /\ ~Includes(f.from.wid, number) => f.log = <<>>
               /\ f.from.wid = number \o <<"@", "c", ".", "u", "s">>
                    => At(f, {"reply"}) # {}

\* C4 as stated: a handling that ends by sending the generated reply makes
\* exactly two document-create calls to the store, in every branch.
C4_ExactlyTwoCreates ==
    \A s \in Slots :
        SentGenerated(h[s]) => Cardinality(At(h[s], PostOps)) = 2

\* C4, amended: a handling that ends by sending the generated reply makes
\* exactly two saveToSupermemory calls, the first of type '<channel>_message'
\* with the inbound text, the second of type '<channel>_response' with the
\* reply, both with the channel as source; the save branch makes one more
\* document-create call, through saveToMemory, also with the channel as
\* source, and no other branch makes any.
C4_TwoArchiveCalls ==
    \A s \in Slots :
        LET f == h[s]
            a == At(f, {"saveToSupermemory"})
            m == At(f, {"saveToMemory"})
        IN  SentGenerated(f) =>
              /\ \E i, j \in a :
                   /\ i < j /\ a = {i, j}
                   /\ f.log[i].type = (IF f.ch = "telegram" THEN "telegram_message"
                                       ELSE "whatsapp_message")
                   /\ f.log[i].body = Body(f.ch, f.text)
                   /\ f.log[j].type = (IF f.ch = "telegram" THEN "telegram_response"
                                       ELSE "whatsapp_response")
                   /\ f.log[j].body = f.resp
                   /\ f.log[i].source = f.ch /\ f.log[j].source = f.ch
              /\ Cardinality(m) = (IF f.branch = "save" THEN 1 ELSE 0)
              /\ \A i \in m : f.log[i].source = f.ch

C4_Witness ==
    \E s \in Slots :
        /\ SentGenerated(h[s]) /\ h[s].branch = "save"
        /\ Cardinality(At(h[s], PostOps)) = 3

\* C5: a failed store call inside saveToSupermemory never reaches the
\* handler: after a failed inbound archive the handler goes on to its
\* routing and vendor call, after a failed outbound archive it sends the
\* reply it had computed, and never the error reply of its catch block.
C5_ArchiveFailureSwallowed ==
    \A s \in Slots :
        LET f == h[s]
        IN  \A i \in At(f, {"saveToSupermemory"}) :
              (~f.log[i].ok /\ f.log[i].type # "bot_start") =>
                IF f.log[i].type = MessageType(f.ch)
                THEN IF i = Len(f.log) THEN f.pc \in {"branch", "archOut"}
                     ELSE f.log[i + 1].op \in VendorOps \cup {"saveToSupermemory"}
                ELSE IF i = Len(f.log) THEN f.pc = "reply"
                     ELSE /\ f.log[i + 1].op = "reply"
                          /\ f.log[i + 1].body = f.resp
                          /\ f.resp \in {x.value : x \in
                                {callGroq(f.text, TRUE), callClaude(f.text, TRUE),
                                 callGemini(f.text, TRUE)}}
                               \cup {GROQ_NOT_CONFIGURED, GROQ_FAILED, SavedBody(DOC_ID)}

C5_Witness ==
    \E s \in Slots :
        LET f == h[s]
        IN  /\ SentGenerated(f)
            /\ \A i \in At(f, {"saveToSupermemory"}) : ~f.log[i].ok
            /\ Cardinality(At(f, {"saveToSupermemory"})) = 2

\* C6: every reply sent while handling a text message of an authorized
\* sender, the error reply included, is archived with the response type,
\* and the inbound text is archived with the message type.
C6_EveryReplyArchived ==
    \A s \in Slots :
        LET f == h[s]
        IN  (f.pc = "done" /\ IsChat(f) /\ At(f, {"saveToSupermemory"}) # {}) =>
              /\ \A i \in At(f, {"reply"}) :
                   \E j \in At(f, {"saveToSupermemory"}) :
                      /\ f.log[j].type = ResponseType(f.ch)
                      /\ f.log[j].body = f.log[i].body
              /\ \E j \in At(f, {"saveToSupermemory"}) :
                   f.log[j].type = MessageType(f.ch)

\* C7: a text containing 'invoice' or its Arabic keyword is handled by the
\* invoice branch of every text handler, whatever lower-priority keywords
\* it also contains, and never reaches saveToMemory.
C7_InvoiceFirst ==
    (/\ fn.kind = "route" /\ fn.pc = "out"
     /\ (Includes(fn.text, KW_INVOICE) \/ Includes(fn.text, KW_INVOICE_AR)))
    => /\ \A k \in Handlers : fn.branch[k] = "invoice"
       /\ "saveToMemory" \notin fn.calls
       /\ fn.calls \subseteq {"callClaude", "callGroq"}

C7_Witness ==
    /\ fn.kind = "route" /\ fn.pc = "out"
    /\ Includes(fn.text, KW_INVOICE) /\ Includes(fn.text, KW_SAVE_AR)
    /\ fn.branch[<<1, "telegram">>] = "invoice"

\* C8: the message KW_SAVE_AR ': ' DECISION_AR is routed to the save flow on
\* Telegram and on WhatsApp, and the content handed to saveToMemory is
\* exactly DECISION_AR.
C8_SaveDecisionContent ==
    (fn.kind = "route" /\ fn.pc = "out" /\ fn.text = KW_SAVE_AR \o COLON_DECISION_AR)
    => /\ \A k \in Handlers : fn.branch[k] = "save"
       /\ fn.content = DECISION_AR

C10_KeyCheckedFallback ==
    \A s \in Slots :
        LET f    == h[s]
            c    == At(f, LlmOps)
            call == BranchCall(f.branch, f.peak)
            viaGroq == \/ ~env.GROQ_API_KEY /\ f.resp = GROQ_NOT_CONFIGURED
                                           /\ At(f, {"groq"}) = {}
                       \/ /\ env.GROQ_API_KEY
                          /\ \E g \in At(f, {"groq"}) :
                               /\ f.log[g].body = Body("prompt", f.text)
                               /\ f.resp = (IF f.log[g].ok THEN Body("groq", f.text)
                                            ELSE GROQ_FAILED)
        IN  (variant = 2 /\ f.branch # "" /\ f.pc # "branch") =>
              /\ \A i \in c : i = Len(f.log) => f.pc = "archOut"
              /\ (call = "callClaude" /\ ~env.ANTHROPIC_API_KEY)
                    => (At(f, {"claude"}) = {} /\ viaGroq)
              /\ (call = "callClaude" /\ \E i \in At(f, {"claude"}) : ~f.log[i].ok)
                    => viaGroq
              /\ (call = "callGroq" /\ ~env.GROQ_API_KEY)
                    => (f.resp = GROQ_NOT_CONFIGURED /\ c = {})
              /\ \A i \in c : i < Len(f.log) =>
                    f.log[i + 1].op \in {"groq", "saveToSupermemory"}

C10_Witness ==
    \E s \in Slots :
        LET f == h[s]
        IN  /\ variant = 2 /\ f.pc = "done" /\ ~env.GROQ_API_KEY
            /\ \E i \in At(f, {"claude"}) : ~f.log[i].ok
            /\ f.log[Len(f.log)] = ReplyEffect(f.ch, GROQ_NOT_CONFIGURED, TRUE)

\* C11: with any one variable of the configuration surface absent, module
\* construction (the LLM clients, FinancialSuite, SchedulingModule,
\* RecruitmentModule, MemoryModule) completes: no exception thrown by a
\* constructor, and no rejected promise it left unhandled, ends the process.
C11_ConstructionCompletes ==
    alive /\ proc.pc # "crashed" /\ proc.calendar # "rejected"

\* C12: saveToMemory issues the create call and succeeds whenever that call
\* succeeds, whatever the classification does; when the classification call
\* fails, its reply holds no JSON object, or its braces do not parse, the
\* document is created with title 'Untitled Document', summary the first 50
\* characters of the content, tags ['general'] and type 'document'.
C12_SaveSurvivesClassification ==
    (fn.kind = "memory" /\ fn.pc = "out") =>
        LET a      == fn.arg
            r      == fn.out
            posts  == {i \in 1..Len(r.log) : r.log[i].op = "saveToMemory"}
            span   == MatchSpan(a.outcome.text, "{", "}")
            failed == ~a.outcome.ok \/ span = <<>> \/ span \notin JsonTexts
        IN  /\ Cardinality(posts) = 1
            /\ a.ok => (~r.threw /\ r.value = DOC_ID)
            /\ failed =>
                 \A i \in posts :
                    /\ r.log[i].body.t = a.content
                    /\ r.log[i].body.title = "Untitled Document"
                    /\ r.log[i].body.summary =
                         [k \in 1..(IF Len(a.content) < 50 THEN Len(a.content) ELSE 50)
                            |-> a.content[k]]
                    /\ r.log[i].body.tags = <<"general">>
                    /\ r.log[i].type = "document"

C12_Witness ==
    /\ fn.kind = "memory" /\ fn.pc = "out"
    /\ Len(fn.arg.content) > 50 /\ fn.arg.ok
    /\ fn.arg.outcome = LlmReply(TRUE, <<"{", "w", "}">>)
    /\ ~fn.out.threw /\ fn.out.value = DOC_ID
    /\ Len(fn.out.log[2].body.summary) = 50

\* C13: when the ranking reply cannot be parsed as JSON (no bracketed array,
\* or a bracketed span that is not valid JSON), rankCandidates returns the
\* candidate list unranked and searchLinkedInCandidates does not throw.
C13_RankingParseFallback ==
    (fn.kind = "rank" /\ fn.pc = "out") =>
        LET a    == fn.arg
            span == MatchSpan(a.outcome.text, "[", "]")
        IN  (/\ a.ok /\ a.criteria.skills /\ a.outcome.ok
             /\ (span = <<>> \/ span \notin JsonTexts))
            => (~fn.out.threw /\ fn.out.value = a.found)

\* C14: searchMemory never throws; with zero results or no results field it
\* returns the 'No documents found' string, with a failed store call the
\* search-error string, and otherwise a listing with one numbered entry per
\* result, in the order the store returned them.
C14_SearchOutcomes ==
    (fn.kind = "search" /\ fn.pc = "out") =>
        LET resp == fn.arg
            v    == fn.out.value
        IN  /\ ~fn.out.threw
            /\ ~resp.ok => v = SEARCH_ERROR
            /\ (resp.ok /\ (~resp.hasResults \/ resp.results = <<>>)) => v = NO_DOCUMENTS
            /\ (resp.ok /\ resp.hasResults /\ resp.results # <<>>) =>
                 /\ v.k = "listing"
                 /\ Len(v.t) = Len(resp.results)
                 /\ \A i \in 1..Len(v.t) : v.t[i] = [n |-> i, id |-> resp.results[i].id]

\* C15: retrieveDocument never throws; it returns the rendered document for
\* an id the store holds, and 'Document not found' only for an id the
\* store does not hold.
C15_NotFoundOnlyWhenAbsent ==
    (fn.kind = "recall" /\ fn.pc = "out") =>
        /\ ~fn.out.threw
        /\ fn.arg.id \in 1..Len(store) => fn.out.value = Body("document", <<fn.arg.id>>)
        /\ fn.out.value = DOCUMENT_NOT_FOUND => fn.arg.id \notin 1..Len(store)

InProgress(f) == f.pc \notin {"idle", "done"}

\* C17: on each channel at most one handler invocation is in progress at
\* any time.
C17_OneInvocationPerChannel ==
    \A s1, s2 \in Slots :
        (s1 # s2 /\ InProgress(h[s1]) /\ InProgress(h[s2])) => h[s1].ch # h[s2].ch

\* the step of the data flow that call i of frame f belongs to: 1 inbound
\* archive, 2 vendor call, 3 outbound archive, 4 reply with the response;
\* 0 for the other calls (typing indicator, error reply)
StageOf(f, i) ==
    LET e == f.log[i]
    IN  CASE e.op = "saveToSupermemory" /\ e.type = MessageType(f.ch) -> 1
          [] e.op \in VendorOps \cup {"saveToMemory"} -> 2
          [] e.op = "saveToSupermemory" /\ e.type = ResponseType(f.ch) -> 3
          [] e.op = "reply" /\ f.resp # NoBody /\ e.body = f.resp -> 4
          [] OTHER -> 0

\* C18: in every handler invocation for an authorized text message the
\* calls are made one after the other in the order inbound archive, vendor
\* call, outbound archive, reply: no call of a later step comes before a
\* call of an earlier one, a vendor call or outbound archive comes after
\* the inbound archive has returned, and the reply with the response comes
\* after the outbound archive has returned.
C18_StepOrder ==
    \A s \in Slots :
        LET f == h[s]
            n == Len(f.log)
        IN  IsChat(f) =>
              /\ \A i, j \in 1..n :
                   (i < j /\ StageOf(f, i) > 0 /\ StageOf(f, j) > 0) =>
                       StageOf(f, i) <= StageOf(f, j)
              /\ \A j \in 1..n :
                   StageOf(f, j) \in {2, 3} => \E i \in 1..(j - 1) : StageOf(f, i) = 1
              /\ \A j \in 1..n :
                   StageOf(f, j) = 4 => \E i \in 1..(j - 1) : StageOf(f, i) = 3

C18_Witness ==
    \E s \in Slots :
        LET f == h[s]
        IN  /\ SentGenerated(f)
            /\ \E i, j, k \in 1..Len(f.log) :
                 /\ StageOf(f, i) = 1 /\ ~f.log[i].ok
                 /\ StageOf(f, j) = 2 /\ f.log[j].op \in LlmOps
                 /\ StageOf(f, k) = 3
                 /\ i < j /\ j < k

\* C19: when the process has exited on SIGINT or SIGTERM, the Telegram bot
\* has been stopped and the WhatsApp client, when one was created, has been
\* closed; this for both pairs of signal handlers.
C19_TransportsClosedAtExit ==
    proc.pc = "exited" => (proc.bot # "polling" /\ proc.whatsapp # "open")

\* C20: for every message text and every hour of day the Telegram text
\* handler and the WhatsApp handler of a copy choose the same routing
\* branch and make the same call (callClaude, callGroq, callGemini or
\* saveToMemory).
C20_ChannelsEquivalent ==
    (fn.kind = "route" /\ fn.pc = "out") =>
        \A v \in {1, 2}, hr \in Hours :
            LET tg   == fn.branch[<<v, "telegram">>]
                wa   == fn.branch[<<v, "whatsapp">>]
                peak == IF v = 1 THEN getActiveEngine(hr).isPeakTime
                        ELSE getActiveEngine_v2(hr).isPeakTime
            IN  /\ tg = wa
                /\ BranchCall(tg, peak) = BranchCall(wa, peak)

\* C21: for every text that a handler routes to the save branch, the
\* content passed to saveToMemory contains no occurrence of KW_SAVE_AR, no
\* occurrence of 'save' in any letter case, and has no leading or trailing
\* white space.
C21_ContentHasNoTrigger ==
    (/\ fn.kind = "route" /\ fn.pc = "out"
     /\ \E k \in Handlers : fn.branch[k] = "save")
    => /\ ~Includes(fn.content, KW_SAVE_AR)
       /\ ~Includes(ToLowerCase(fn.content), KW_SAVE)
       /\ fn.content # <<>> =>
            (Head(fn.content) \notin WhiteSpace /\ fn.content[Len(fn.content)] \notin WhiteSpace)

\* C22: the process ends during startup only for a Telegram token that is
\* not valid (a WhatsApp initialization failure never ends it), with a
\* valid token the Telegram bot ends up serving, and a missing or malformed
\* token ends the process in both copies.
C22_OnlyTelegramIsFatal ==
    LET started == proc.pc = "serving" /\ proc.bot # "launching"
    IN  /\ ~alive => proc.token # "valid"
        /\ (alive /\ started /\ proc.token = "valid") => proc.bot = "polling"
        /\ (started /\ proc.token # "valid") => ~alive

\* C28: whatsappReady is true exactly when the latest of the client's
\* 'ready' and 'disconnected' events was 'ready'; false before the first
\* 'ready'; 'qr', 'message' and 'error' events leave it as it is.
C28_ReadyFlagFollowsEvents ==
    proc.ready = (proc.lastConn = "ready")

C28_Witness ==
    /\ ~proc.ready /\ proc.lastConn = "disconnected"
    /\ proc.lastEvent \in WhatsAppOtherEvents

\* the engine decision of copy v at UTC hour hr
PeakAt(v, hr) ==
    IF v = 1 THEN getActiveEngine(hr).isPeakTime ELSE getActiveEngine_v2(hr).isPeakTime

\* C23: the engine decision of an invocation is computed when the handler
\* starts, from the hour at that moment (not taken from an earlier message);
\* it stays the same until the invocation ends, whatever the clock does; and
\* the vendor called by a branch that picks the LLM by the decision is
\* Claude when that decision was peak and Groq when it was off-peak.
C23_DecisionOncePerMessage ==
    [][\A s \in Slots :
         LET f == h[s]
             g == h'[s]
         IN  /\ (~InProgress(f) /\ InProgress(g)) => g.peak = PeakAt(variant, utcHour)
             /\ (InProgress(f) /\ g # f) => g.peak = f.peak
             /\ (/\ f.pc = "branch" /\ g # f
                 /\ f.branch \notin {"save", "code", "analysis"}
                 /\ (variant = 1 \/ (env.ANTHROPIC_API_KEY /\ env.GROQ_API_KEY)))
                => /\ Len(g.log) > Len(f.log)
                   /\ g.log[Len(f.log) + 1].op = IF f.peak THEN "claude" ELSE "groq"]_vars

C23_Witness ==
    \E s \in Slots :
        LET f == h[s]
        IN  /\ SentGenerated(f)
            /\ f.peak # PeakAt(variant, utcHour)
            /\ \E i \in At(f, LlmOps) : f.log[i].op = IF f.peak THEN "claude" ELSE "groq"
            /\ f.branch = "generic"

\* C24: with ALLOWED_TELEGRAM_USER_IDS absent from the environment, every
\* Telegram text message, whoever sent it, is rejected and makes no vendor
\* call and no archive call; in both copies.
C24_NoAllowedIdRejectsAll ==
    \A s \in Slots :
        LET f == h[s]
        IN  (/\ IsChat(f) /\ f.ch = "telegram"
             /\ env.ALLOWED_TELEGRAM_USER_IDS = <<>>)
            => /\ At(f, VendorOps \cup PostOps) = {}
               /\ f.pc = "done" =>
                    \E i \in 1..Len(f.log) :
                        /\ f.log[i].op = "reply"
                        /\ f.log[i].body \in {REJECT_ACCESS, REJECT_INTERNAL}

\* C25: for a sender other than the founder, MemoryModule's WhatsApp
\* handler makes no saveToMemory, searchMemory or retrieveDocument call and
\* sends no reply.
C25_MemoryCommandsFounderOnly ==
    (/\ fn.kind = "whatsappCommand" /\ fn.pc = "out"
     /\ fn.arg.from # FOUNDER_WID)
    => fn.out.log = <<>>

\* f handles a text message of a sender that passed the access check
Admitted(f) ==
    /\ IsChat(f)
    /\ IF f.ch = "telegram"
       THEN ~(IF variant = 1 THEN TelegramRejected(env, f.from.id)
              ELSE TelegramRejected_v2(env, f.from.id))
       ELSE ~(IF variant = 1 THEN WhatsAppIgnored(env, f.from.wid)
              ELSE WhatsAppIgnored_v2(env, f.from.wid))

\* the replies of f that reached the transport
Delivered(f) == {i \in At(f, {"reply"}) : f.log[i].ok}

\* C26 as stated: every finished invocation for an authorized text message
\* has delivered exactly one reply, whatever succeeded or failed.
C26_ExactlyOneReply ==
    \A s \in Slots :
        (h[s].pc = "done" /\ Admitted(h[s])) => Cardinality(Delivered(h[s])) = 1

\* C26: every finished invocation for an authorized text message has tried
\* to reply once or twice and has delivered at most one reply, the response
\* or the error reply; the second attempt is the error reply and is made
\* only after a failed send of the response; a reply is delivered exactly
\* when the last attempt succeeded, so none is when that send failed.
C26_AtMostOneReplyDelivered ==
    \A s \in Slots :
        LET f  == h[s]
            at == At(f, {"reply"})
        IN  (f.pc = "done" /\ Admitted(f)) =>
              /\ Cardinality(at) \in {1, 2}
              /\ Cardinality(Delivered(f)) <= 1
              /\ \A i \in at : f.log[i].body \in {f.resp, CatchBody(variant, f.ch)}
              /\ \A i, j \in at :
                   i < j => /\ ~f.log[i].ok /\ f.log[i].body = f.resp
                            /\ f.log[j].body = CatchBody(variant, f.ch)
              /\ (Delivered(f) # {}) = f.log[Len(f.log)].ok
              /\ f.log[Len(f.log)].op = "reply"

C26_Witness ==
    \E s \in Slots :
        LET f == h[s]
        IN  /\ f.pc = "done" /\ Admitted(f)
            /\ Cardinality(At(f, {"reply"})) = 2
            /\ Cardinality(Delivered(f)) = 1

\* C27: in the save branch a confirmation reply is sent only after a
\* successful create call of saveToMemory and shows the id that call
\* returned; after a failed create call the reply is the error reply.
C27_ConfirmationOnlyAfterSave ==
    \A s \in Slots :
        LET f == h[s]
        IN  \A i \in At(f, {"saveToMemory"}) :
              /\ \A j \in At(f, {"reply", "saveToSupermemory"}) :
                   f.log[j].body.k = "saved" =>
                       /\ f.log[i].ok /\ i < j
                       /\ f.log[j].body = SavedBody(DOC_ID)
              /\ (~f.log[i].ok /\ f.pc = "done") =>
                   /\ f.log[Len(f.log)].op = "reply"
                   /\ f.log[Len(f.log)].body = CatchBody(variant, f.ch)
                   /\ At(f, {"reply"}) = {Len(f.log)}

C27_Witness ==
    \E s \in Slots :
        LET f == h[s]
        IN  /\ f.pc = "done" /\ f.branch = "save"
            /\ \E i \in At(f, {"saveToMemory"}) : ~f.log[i].ok
            /\ f.log[Len(f.log)] = ReplyEffect(f.ch, CatchBody(variant, f.ch), TRUE)

\* C29: every slot findAvailableSlots returns starts on the hour, at an
\* hour inside the working hours, on a day from startDate's to endDate's
\* that is neither Saturday nor Sunday, ends no later than workingHoursEnd
\* of its day, was reported free, and the slots are in increasing order of
\* start time.
C29_SlotsInsideWorkingHours ==
    (fn.kind = "slots" /\ fn.pc = "out") =>
        LET o  == fn.arg
            av == fn.out.availableSlots
        IN  /\ \A i \in 1..Len(av) :
                 LET sl  == av[i]
                     day == DayOf(sl.start)
                     min == sl.start - day * MinutesPerDay
                 IN  /\ min % MINUTES_PER_HOUR = 0
                     /\ o.workingHoursStart <= min \div MINUTES_PER_HOUR
                     /\ min \div MINUTES_PER_HOUR < o.workingHoursEnd
                     /\ DayOf(o.startDate) <= day /\ day <= DayOf(o.endDate)
                     /\ GetDay(sl.start) \notin {SATURDAY, SUNDAY}
                     /\ sl.end <= day * MinutesPerDay + o.workingHoursEnd * MINUTES_PER_HOUR
                     /\ \E k \in 1..Len(fn.out.checked) :
                          /\ fn.out.checked[k].slot = sl
                          /\ fn.out.checked[k].answer = [ok |-> TRUE, busy |-> 0]
            /\ \A i, j \in 1..Len(av) : i < j => av[i].start < av[j].start

\* the slots the scan covers: each working hour of each weekday reached by
\* adding whole days to startDate without passing endDate
ScanSlots(o) ==
    {[start |-> SlotStart(o.startDate + k * MinutesPerDay, hr),
      end   |-> SlotEnd(SlotStart(o.startDate + k * MinutesPerDay, hr), o.duration)] :
        k \in {x \in 0..(MaxDay + 1) :
                 /\ o.startDate + x * MinutesPerDay <= o.endDate
                 /\ GetDay(o.startDate + x * MinutesPerDay) \notin {SATURDAY, SUNDAY}},
        hr \in o.workingHoursStart..(o.workingHoursEnd - 1)}

\* C30: every call of findAvailableSlots returns, and when it has returned
\* every slot of the scan was checked once, in order, whatever the result of
\* the slots before it, and the result is exactly the checked slots that
\* were reported free: a failed check leaves out that slot only.
C30_FailedCheckOmitsOneSlot ==
    /\ [](fn.pc = "out" =>
            LET ch == fn.out.checked
                av == fn.out.availableSlots
                fr == SelectSeq(ch, LAMBDA c : c.answer = [ok |-> TRUE, busy |-> 0])
            IN  /\ {ch[i].slot : i \in 1..Len(ch)} = ScanSlots(fn.arg)
                /\ Len(ch) = Cardinality(ScanSlots(fn.arg))
                /\ \A i, j \in 1..Len(ch) : i < j => ch[i].slot.start < ch[j].slot.start
                /\ av = [i \in 1..Len(fr) |-> fr[i].slot])
    /\ <>(fn.pc = "out")

C30_Witness ==
    /\ fn.kind = "slots" /\ fn.pc = "out"
    /\ \E i, j \in 1..Len(fn.out.checked) :
         /\ i < j
         /\ ~fn.out.checked[i].answer.ok
         /\ fn.out.checked[j].answer = [ok |-> TRUE, busy |-> 0]
         /\ DayOf(fn.out.checked[i].slot.start) < DayOf(fn.out.checked[j].slot.start)
         /\ fn.out.availableSlots # <<>>
         /\ fn.out.availableSlots[Len(fn.out.availableSlots)] = fn.out.checked[j].slot

====
